---- MODULE Spec2Model ----
(***************************************************************************)
(* Model of the puzzle game of src/unnamed/part_001 (PuzzleAdventureGame): *)
(* the level generator generateAdaptiveLevel with its connectivity check   *)
(* isPathExists, the move handler movePlayer with its hard-mode board      *)
(* rotation, the trap relocation interval, and the React plumbing around   *)
(* them (state updaters, closures captured at render time, effects).       *)
(*                                                                         *)
(* Numbers with a decimal point in the source are kept in tenths           *)
(* (difficulty 0.5 is 5); the source computes them in doubles.             *)
(* The grid sides of the source (8, 12, 20) are scaled down to GridN.      *)
(***************************************************************************)
EXTENDS Integers, Sequences, FiniteSets, TLC

(***************************************************************************)
(* Bounds of the model.                                                    *)
(***************************************************************************)
\* side of the grid (the source's 8 / 12 / 20)
GridN == 4
\* moves of one level
MaxMoves == 21
\* retries of one level
MaxRetries == 1
\* calls of initializeLevel after the first one
MaxInits == 1
\* level numbers handed to generateAdaptiveLevel
MaxLevel == 14
\* a level is left for the next one within this many moves
EarlyMoves == 3
\* a level is restarted within this many moves
RestartMoves == 1
\* hints asked in one run of the game
MaxHints == 1
\* a hint is asked within this many moves of a level
HintMoves == 3
\* moves of one level where the timer's scheduling is followed
TimerMoves == 4
\* moves of a level in the runs played with the keyboard
KeyMoves == 4

(***************************************************************************)
(* TILES, src/unnamed/part_001:20-30.                                      *)
(***************************************************************************)
EMPTY == 0
WALL == 1
KEY == 3
DOOR == 4
GOAL == 5
TRAP == 6

Settings == {"easy", "medium", "hard"}

Pos(px, py) == [x |-> px, y |-> py]

Size(map) == Cardinality(DOMAIN map)

SetTile(map, px, py, t) == [map EXCEPT ![py][px] = t]

Cells(n) == {Pos(px, py) : px \in 0..(n - 1), py \in 0..(n - 1)}

CountTiles(map, t) == Cardinality({c \in Cells(Size(map)) : map[c.y][c.x] = t})

Max(a, b) == IF a > b THEN a ELSE b

Min(a, b) == IF a < b THEN a ELSE b

(***************************************************************************)
(* generateAdaptiveLevel: the parameters chosen by the difficulty setting. *)
(***************************************************************************)
BaseSize(setting) == GridN

WallMultiplier(setting) ==
  CASE setting = "easy" -> 4
    [] setting = "hard" -> 10
    [] setting = "medium" -> 7
    [] OTHER -> 6

\* in tenths
TrapMultiplier10(setting) ==
  CASE setting = "easy" -> 3
    [] setting = "hard" -> 12
    [] setting = "medium" -> 7
    [] OTHER -> 5

NoMetrics == [none |-> TRUE]

\* C27 mutant: the adjusted difficulty is not brought back under 4
Difficulty10NoUpperClamp(metrics, level) ==
  LET base == Min(level * 3, 40)
      adj == IF metrics = NoMetrics THEN 0
             ELSE (IF metrics.timeToComplete < 30000 THEN 3 ELSE 0)
                + (IF metrics.movesUsed < 25 THEN 2 ELSE 0)
                - (IF metrics.retriesUsed > 2 THEN 4 ELSE 0)
                - (IF metrics.hintsUsed > 1 THEN 3 ELSE 0)
  IN Max(5, base + adj)

\* difficulty in tenths: min(level * 0.3, 4), adjusted by the previous
\* level's metrics, clamped to [0.5, 4]
Difficulty10(metrics, level) ==
  LET base == Min(level * 3, 40)
      adj == IF metrics = NoMetrics THEN 0
             ELSE (IF metrics.timeToComplete < 30000 THEN 3 ELSE 0)
                + (IF metrics.movesUsed < 25 THEN 2 ELSE 0)
                - (IF metrics.retriesUsed > 2 THEN 4 ELSE 0)
                - (IF metrics.hintsUsed > 1 THEN 3 ELSE 0)
  IN Max(5, Min(base + adj, 40))

StartPos == Pos(1, 1)

GoalPos(n) == Pos(n - 2, n - 2)

\* Array(n).fill(v), indexed from 0
RECURSIVE FilledArray(_, _)
FilledArray(len, v) ==
  IF len = 1 THEN (0 :> v) ELSE FilledArray(len - 1, v) @@ ((len - 1) :> v)

\* lines 282-284: the n x n map of Empty tiles
EmptyMap(n) == FilledArray(n, FilledArray(n, EMPTY))

\* lines 286-292: the border walls, column and row i for i = from .. n - 1
RECURSIVE BorderWalls(_, _, _)
BorderWalls(map, n, i) ==
  IF i >= n THEN map
  ELSE BorderWalls(
         SetTile(SetTile(SetTile(SetTile(map, i, 0, WALL), i, n - 1, WALL), 0, i, WALL),
                 n - 1, i, WALL),
         n, i + 1)

\* C3 mutant: the grid gets no ring of walls
BorderMapOpen(n) == EmptyMap(n)

BorderMap(n) == BorderWalls(EmptyMap(n), n, 0)

(***************************************************************************)
(* createPath: walk from `cur` to `to`, first along x, then along y,       *)
(* clearing every Wall stepped on.  The result is the map and the path.    *)
(***************************************************************************)
RECURSIVE CreatePathFrom(_, _, _, _)
CreatePathFrom(map, cur, to, path) ==
  IF cur.x # to.x
  THEN LET nxt == Pos(cur.x + (IF cur.x < to.x THEN 1 ELSE -1), cur.y)
           m2 == IF map[nxt.y][nxt.x] = WALL THEN SetTile(map, nxt.x, nxt.y, EMPTY) ELSE map
       IN CreatePathFrom(m2, nxt, to, Append(path, nxt))
  ELSE IF cur.y # to.y
  THEN LET nxt == Pos(cur.x, cur.y + (IF cur.y < to.y THEN 1 ELSE -1))
           m2 == IF map[nxt.y][nxt.x] = WALL THEN SetTile(map, nxt.x, nxt.y, EMPTY) ELSE map
       IN CreatePathFrom(m2, nxt, to, Append(path, nxt))
  ELSE [map |-> map, path |-> path]

\* lines 299-320: the first element of the path is the object `current`
\* itself, which the loops move on, so it ends as the last cell of the walk
createPath(map, from, to) ==
  LET walk == CreatePathFrom(map, from, to, <<from>>)
  IN [map |-> walk.map,
      path |-> [walk.path EXCEPT ![1] = walk.path[Len(walk.path)]]]

OnPath(path, px, py) == \E i \in 1..Len(path) : path[i].x = px /\ path[i].y = py

(***************************************************************************)
(* isPathExists: breadth-first search over the 4 neighbours, Walls block.  *)
(***************************************************************************)
Directions == {Pos(0, 1), Pos(1, 0), Pos(0, -1), Pos(-1, 0)}

PathNeighbours(map, size, c) ==
  {Pos(c.x + d.x, c.y + d.y) : d \in Directions} \cap
  {p \in Cells(size) : map[p.y][p.x] # WALL}

RECURSIVE PathSearch(_, _, _, _)
PathSearch(map, size, visited, frontier) ==
  IF frontier = {} THEN visited
  ELSE LET found == (UNION {PathNeighbours(map, size, c) : c \in frontier}) \ visited
       IN PathSearch(map, size, visited \cup found, found)

isPathExists(map, start, goal, size) ==
  goal \in PathSearch(map, size, {start}, {start})

(***************************************************************************)
(* The placement loops of generateAdaptiveLevel.  Math.random is a free    *)
(* choice of an interior cell at every attempt; a loop is modelled by the  *)
(* set of loop states (map, number placed) reachable after each attempt.   *)
(* An attempt on the start cell never places anything, so a loop state     *)
(* reachable after k attempts is reachable after k + 1: once an attempt    *)
(* adds no new loop state, the remaining attempts add none either.         *)
(***************************************************************************)
WallAttempts == 50
KeyAttempts == 30
DoorAttempts == 30
TrapAttempts == 20

RandomCells(n) == {Pos(px, py) : px \in 1..(n - 2), py \in 1..(n - 2)}

LoopState(map, placed) == [map |-> map, placed |-> placed]

\* lines 333-343: one attempt to add a wall at (px, py)
WallAttempt(s, n, mainPath, px, py) ==
  IF ~OnPath(mainPath, px, py) /\ s.map[py][px] = EMPTY
  THEN LET m2 == SetTile(s.map, px, py, WALL)
       IN IF isPathExists(m2, StartPos, GoalPos(n), n)
          THEN LoopState(m2, s.placed + 1)
          ELSE s
  ELSE s

RECURSIVE WallLoop(_, _, _, _, _)
WallLoop(states, n, mainPath, wallCount, attempts) ==
  IF attempts >= WallAttempts \/ \A s \in states : s.placed >= wallCount
  THEN states
  ELSE LET nxt == {s \in states : s.placed >= wallCount} \cup
                  {WallAttempt(s, n, mainPath, c.x, c.y) :
                     s \in {t \in states : t.placed < wallCount}, c \in RandomCells(n)}
       IN IF nxt = states THEN states
          ELSE WallLoop(nxt, n, mainPath, wallCount, attempts + 1)

\* lines 356-364: one attempt to add a key at (px, py)
KeyAttempt(s, n, px, py) ==
  IF /\ s.map[py][px] = EMPTY
     /\ ~(px = StartPos.x /\ py = StartPos.y)
     /\ isPathExists(s.map, StartPos, Pos(px, py), n)
  THEN LoopState(SetTile(s.map, px, py, KEY), s.placed + 1)
  ELSE s

\* C29 mutant: the loop gives nothing back unless every key is placed
KeyLoopOrFail(states, n, keyCount, attempts) == {s \in states : s.placed >= keyCount}

RECURSIVE KeyLoop(_, _, _, _)
KeyLoop(states, n, keyCount, attempts) ==
  IF attempts >= KeyAttempts \/ \A s \in states : s.placed >= keyCount
  THEN states
  ELSE LET nxt == {s \in states : s.placed >= keyCount} \cup
                  {KeyAttempt(s, n, c.x, c.y) :
                     s \in {t \in states : t.placed < keyCount}, c \in RandomCells(n)}
       IN IF nxt = states THEN states
          ELSE KeyLoop(nxt, n, keyCount, attempts + 1)

\* lines 376-384: one attempt to add a door at (px, py)
DoorAttempt(s, n, px, py) ==
  IF /\ s.map[py][px] = EMPTY
     /\ ~(px = StartPos.x /\ py = StartPos.y)
     /\ ~(px = GoalPos(n).x /\ py = GoalPos(n).y)
  THEN LoopState(SetTile(s.map, px, py, DOOR), s.placed + 1)
  ELSE s

RECURSIVE DoorLoop(_, _, _, _)
DoorLoop(states, n, doorCount, attempts) ==
  IF attempts >= DoorAttempts \/ \A s \in states : s.placed >= doorCount
  THEN states
  ELSE LET nxt == {s \in states : s.placed >= doorCount} \cup
                  {DoorAttempt(s, n, c.x, c.y) :
                     s \in {t \in states : t.placed < doorCount}, c \in RandomCells(n)}
       IN IF nxt = states THEN states
          ELSE DoorLoop(nxt, n, doorCount, attempts + 1)

\* lines 395-404: one attempt to add the current trap at (px, py); a trap
\* placed ends the inner loop (break)
TrapAttempt(s, n, mainPath, px, py) ==
  IF /\ s.map[py][px] = EMPTY
     /\ ~(px = StartPos.x /\ py = StartPos.y)
     /\ ~(px = GoalPos(n).x /\ py = GoalPos(n).y)
     /\ ~OnPath(mainPath, px, py)
  THEN LoopState(SetTile(s.map, px, py, TRAP), s.placed + 1)
  ELSE s

\* lines 390-405: the inner loop of one trap
RECURSIVE TrapInnerLoop(_, _, _, _)
TrapInnerLoop(states, n, mainPath, attempts) ==
  IF attempts >= TrapAttempts \/ \A s \in states : s.placed >= 1
  THEN states
  ELSE LET nxt == {s \in states : s.placed >= 1} \cup
                  {TrapAttempt(s, n, mainPath, c.x, c.y) :
                     s \in {t \in states : t.placed < 1}, c \in RandomCells(n)}
       IN IF nxt = states THEN states
          ELSE TrapInnerLoop(nxt, n, mainPath, attempts + 1)

\* lines 389-406: the maps reachable after traps i .. trapCount - 1
RECURSIVE TrapLoop(_, _, _, _, _)
TrapLoop(maps, n, mainPath, trapCount, i) ==
  IF i >= trapCount THEN maps
  ELSE LET nxt == UNION {{s.map : s \in TrapInnerLoop({LoopState(m, 0)}, n, mainPath, 0)} :
                           m \in maps}
       IN IF nxt = maps THEN maps
          ELSE TrapLoop(nxt, n, mainPath, trapCount, i + 1)

\* lines 408-430: put a goal back if none is left on the map
EnsureGoal(map, n) ==
  IF \E c \in Cells(n) : map[c.y][c.x] = GOAL THEN {map}
  ELSE LET candidates == {c \in Cells(n) :
                            map[c.y][c.x] # WALL /\ ~(c.x = StartPos.x /\ c.y = StartPos.y)}
       IN IF candidates # {} THEN {SetTile(map, c.x, c.y, GOAL) : c \in candidates}
          ELSE {map}

WallCount(setting, difficulty10) == (difficulty10 * WallMultiplier(setting)) \div 10

KeyCount(difficulty10) == Max(1, difficulty10 \div 20)

\* C28 mutant: one door more than keys
DoorCountOneMore(difficulty10) == KeyCount(difficulty10) + 1

DoorCount(difficulty10) == Max(0, KeyCount(difficulty10) - 1)

TrapCount(setting, difficulty10) ==
  (difficulty10 * TrapMultiplier10(setting) * BaseSize(setting)) \div 100

(***************************************************************************)
(* generateAdaptiveLevel for a difficulty setting and a difficulty scalar: *)
(* the set of results {map, totalKeys} over all outcomes of Math.random.   *)
(***************************************************************************)
GenerateFor(setting, difficulty10) ==
  LET n == BaseSize(setting)
      goal == GoalPos(n)
      map0 == SetTile(BorderMap(n), goal.x, goal.y, GOAL)
      cp == createPath(map0, StartPos, goal)
      walled == {s.map : s \in WallLoop({LoopState(cp.map, 0)}, n, cp.path,
                                         WallCount(setting, difficulty10), 0)}
      keyed == UNION {{s.map : s \in KeyLoop({LoopState(m, 0)}, n,
                                              KeyCount(difficulty10), 0)} : m \in walled}
      doored == UNION {{s.map : s \in DoorLoop({LoopState(m, 0)}, n,
                                                DoorCount(difficulty10), 0)} : m \in keyed}
      trapped == TrapLoop(doored, n, cp.path, TrapCount(setting, difficulty10), 0)
      final == UNION {EnsureGoal(m, n) : m \in trapped}
  IN {[map |-> m, totalKeys |-> KeyCount(difficulty10)] : m \in final}

generateAdaptiveLevel(setting, metrics, level) ==
  GenerateFor(setting, Difficulty10(metrics, level))

\* an explicit array for a function given by a rule
Array(f) == f @@ <<>>

\* generateAdaptiveLevel by difficulty setting and difficulty scalar
GenTable == Array([p \in Settings \X (5..40) |-> GenerateFor(p[1], p[2])])

(***************************************************************************)
(* rotateMatrix, rotatePos, getEmptyPositions.                             *)
(***************************************************************************)
\* C17 mutant: the source column is read with the wrong index
rotateMatrixWrongIndex(matrix) ==
  LET N == Size(matrix)
  IN Array([py \in 0..(N - 1) |-> Array([px \in 0..(N - 1) |-> matrix[N - 1 - px][px]])])

rotateMatrix(matrix) ==
  LET N == Size(matrix)
  IN Array([py \in 0..(N - 1) |-> Array([px \in 0..(N - 1) |-> matrix[N - 1 - px][py]])])

\* C18 mutant: the position turns the other way
rotatePosCounter(pos, N) == Pos(pos.y, N - 1 - pos.x)

rotatePos(pos, N) == Pos(N - 1 - pos.y, pos.x)

getEmptyPositions(map) == {c \in Cells(Size(map)) : map[c.y][c.x] = EMPTY}

(***************************************************************************)
(* lib/storage.ts.  The item puzzleAdventureData of localStorage is        *)
(* missing (getItem gives null), the empty text, a text JSON.parse         *)
(* rejects, or the JSON text of an object.                                  *)
(***************************************************************************)
NoData == [none |-> TRUE]

EmptyText == [text |-> "empty"]

Unparsable == [text |-> "unparsable"]

\* JSON.stringify of an object, line 61
JSONstringify(value) == [json |-> value]

defaultUserData ==
  [level |-> 1, score |-> 0, xp |-> 0, coins |-> 0, achievements |-> <<>>,
   settings |-> [sound |-> TRUE, theme |-> "system"],
   customContent |-> <<>>, rewards |-> <<>>]

\* the outcome of a call: it returns a value or throws
Returned(value) == [threw |-> FALSE, value |-> value]

Threw == [threw |-> TRUE, value |-> NoData]

\* localStorage: available, full (setItem throws QuotaExceededError) or
\* blocked (every access throws SecurityError)
StorageStates == {"available", "full", "blocked"}

getItem(data, storage) == IF storage = "blocked" THEN Threw ELSE Returned(data)

setItem(data, text, storage) ==
  IF storage = "available" THEN Returned(text) ELSE Threw

\* JSON.parse of a stored text, line 49
JSONparse(text) == IF DOMAIN text = {"json"} THEN Returned(text.json) ELSE Threw

\* C31 mutant: the spread in the other order, { ...partial, ...currentData }
MergeKeepCurrent(currentData, partial) ==
  [k \in DOMAIN currentData \cup DOMAIN partial |->
     IF k \in DOMAIN currentData THEN currentData[k] ELSE partial[k]]

\* { ...currentData, ...partial }
Merge(currentData, partial) ==
  [k \in DOMAIN currentData \cup DOMAIN partial |->
     IF k \in DOMAIN partial THEN partial[k] ELSE currentData[k]]

\* the try block of getUserData, lines 48-49
getUserDataTry(data, storage) ==
  LET item == getItem(data, storage)
  IN IF item.threw THEN Threw
     ELSE IF item.value \in {NoData, EmptyText} THEN Returned(defaultUserData)
     ELSE IF JSONparse(item.value).threw THEN Threw
     ELSE Returned(Merge(defaultUserData, JSONparse(item.value).value))

\* C32 mutant: getUserData without its catch
getUserDataNoCatch(data, storage) == getUserDataTry(data, storage)

\* getUserData with its catch, lines 44-53
getUserDataCall(data, storage) ==
  IF getUserDataTry(data, storage).threw THEN Returned(defaultUserData)
  ELSE getUserDataTry(data, storage)

\* the try block of saveUserData, lines 59-61: the item after it
saveUserDataTry(data, partial, storage) ==
  LET currentData == getUserDataCall(data, storage)
  IN IF currentData.threw THEN Threw
     ELSE setItem(data, JSONstringify(Merge(currentData.value, partial)), storage)

\* saveUserData with its catch, lines 55-65: the item it leaves
saveUserDataCall(data, partial, storage) ==
  IF saveUserDataTry(data, partial, storage).threw THEN Returned(data)
  ELSE saveUserDataTry(data, partial, storage)

\* the calls of the game component, with localStorage available
getUserData(data) == getUserDataCall(data, "available").value

saveUserData(data, partial) == saveUserDataCall(data, partial, "available").value

\* resetUserData, lines 67-71
resetUserData(data) == NoData

(***************************************************************************)
(* The component state (useState), lines 113-145.                          *)
(***************************************************************************)
NoCompletion == [none |-> TRUE]

InitialGameState ==
  [level |-> 1, score |-> 0, xp |-> 0, coins |-> 0,
   currentMap |-> <<>>, playerPos |-> Pos(1, 1),
   keysCollected |-> 0, totalKeys |-> 0, gameStatus |-> "playing",
   moves |-> 0, retries |-> 0, hintsUsed |-> 0,
   completionData |-> NoCompletion]

VARIABLES
  difficultySetting,   \* localStorage item puzzleDifficulty, read by getDifficulty
  store,               \* localStorage item puzzleAdventureData
  gameState,           \* useState gameState, after the updaters queued so far
  levelMetrics,        \* useState levelMetrics
  showLevelComplete,   \* useState showLevelComplete
  rendered,            \* what the last render saw: the values its closures hold
  trapTimer,           \* the trap interval is registered
  mounted,             \* the effects of the first render have run
  inits,               \* calls of initializeLevel so far
  dirty,               \* state was set by an effect and is not rendered yet
  hintTile,            \* useState hintTile: the set of highlighted hint cells (null is {})
  reachableTiles,      \* useState reachableTiles, as a set of cells
  keyHandler,          \* the game state held by the registered keydown handler
  lastEvent            \* the last step taken and what it met

vars == <<difficultySetting, store, gameState, levelMetrics, showLevelComplete,
          rendered, trapTimer, mounted, inits, dirty, hintTile, reachableTiles,
          keyHandler, lastEvent>>

\* the highlights of a hint, lines 139 and 144
highlights == <<hintTile, reachableTiles>>

\* the values of one render that handlers and effects close over
Snapshot(gs, lm, slc) ==
  [gameStatus |-> gs.gameStatus, level |-> gs.level, score |-> gs.score,
   xp |-> gs.xp, coins |-> gs.coins, retries |-> gs.retries,
   completionData |-> gs.completionData,
   levelMetrics |-> lm, showLevelComplete |-> slc]

\* op: the step; for a move into the grid, the tile it met and where, whether
\* the updater accepted it, and whether the Board Transform followed
Event(op, tile, at, accepted, rotated) ==
  [op |-> op, tile |-> tile, at |-> at, accepted |-> accepted, rotated |-> rotated]

PlainEvent(op) == Event(op, EMPTY, Pos(0, 0), TRUE, FALSE)

NoMoveEvent(op) == Event(op, EMPTY, Pos(0, 0), FALSE, FALSE)

(***************************************************************************)
(* initializeLevel, lines 639-655: the level is generated from the level   *)
(* number and metrics of the render that created the callback.             *)
(***************************************************************************)
InitializeLevelUpdate(prev, out) ==
  [prev EXCEPT !.currentMap = out.map,
               !.playerPos = Pos(1, 1),
               !.keysCollected = 0,
               !.totalKeys = out.totalKeys,
               !.gameStatus = "playing",
               !.moves = 0]

GeneratedLevels(closure) ==
  GenTable[<<difficultySetting, Difficulty10(closure.levelMetrics, closure.level)>>]

\* the load effect, lines 157-175
LoadUpdate(prev, saved) ==
  [prev EXCEPT !.level = saved.level, !.score = saved.score,
               !.xp = saved.xp, !.coins = saved.coins]

\* saveProgress, lines 247-254, with the values of one render
saveProgress(data, closure) ==
  saveUserData(data, [level |-> closure.level, score |-> closure.score,
                      xp |-> closure.xp, coins |-> closure.coins])

\* C22 mutant: the timer of every difficulty setting
TrapTimerAnySetting(closure) == closure.gameStatus = "playing"

\* the trap interval effect registers a timer for a playing level, lines 866-868
TrapTimerFor(closure) ==
  closure.gameStatus = "playing" /\ difficultySetting # "easy"

(***************************************************************************)
(* The completion effect, lines 704-726.                                   *)
(***************************************************************************)
Achievements(closure) ==
  (IF closure.retries = 0 THEN <<"Perfect Run">> ELSE <<>>)
  \o (IF closure.completionData.timeToComplete < 30000 THEN <<"Speed Runner">> ELSE <<>>)
  \o (IF closure.completionData.movesUsed < 25 THEN <<"Efficient Navigator">> ELSE <<>>)

\* C15 mutant: the effect never finds a completion
CompletionNever(closure) == FALSE

CompletionPending(closure) ==
  closure.gameStatus = "completed" /\ closure.completionData # NoCompletion

SaveAchievements(data, closure) ==
  IF Achievements(closure) = <<>> THEN data
  ELSE saveUserData(data, [achievements |-> getUserData(data).achievements \o Achievements(closure)])

(***************************************************************************)
(* The search of useHint, lines 741-847, as a function of the grid, the    *)
(* player position and keysCollected it reads.                             *)
(***************************************************************************)
\* lines 744-754: the first Goal cell in row order, as a set
FindGoal(map) ==
  LET goals == {c \in Cells(Size(map)) : map[c.y][c.x] = GOAL}
  IN IF goals = {} THEN {}
     ELSE {CHOOSE g \in goals :
             \A h \in goals : g.y < h.y \/ (g.y = h.y /\ g.x <= h.x)}

\* lines 764-769
HintDirections == <<Pos(0, 1), Pos(1, 0), Pos(0, -1), Pos(-1, 0)>>

\* C23 mutant: a hint may cross a Trap
HintTraversableTrap(map, keysCollected, c) == map[c.y][c.x] # WALL

\* lines 782-787 and 811-816: the tiles a hint may cross
HintTraversable(map, keysCollected, c) ==
  \/ map[c.y][c.x] = EMPTY
  \/ map[c.y][c.x] = KEY
  \/ map[c.y][c.x] = GOAL
  \/ (map[c.y][c.x] = DOOR /\ keysCollected > 0)

InGrid(map, c) == c.x >= 0 /\ c.x < Size(map) /\ c.y >= 0 /\ c.y < Size(map)

\* lines 772-796: one direction of the cell taken from the queue
HintVisit(s, current, dir, map, keysCollected, goal) ==
  LET n == Pos(current.x + dir.x, current.y + dir.y)
  IN IF s.found THEN s
     ELSE IF InGrid(map, n) /\ n \notin s.visited /\ HintTraversable(map, keysCollected, n)
          THEN [queue |-> Append(s.queue, n),
                visited |-> s.visited \cup {n},
                parent |-> s.parent \cup {[cell |-> n, from |-> current]},
                found |-> n = goal]
          ELSE s

\* lines 770-799: the breadth-first search
RECURSIVE HintSearch(_, _, _, _)
HintSearch(s, map, keysCollected, goal) ==
  IF s.queue = <<>> \/ s.found THEN s
  ELSE LET current == Head(s.queue)
           s0 == [s EXCEPT !.queue = Tail(@)]
           s1 == HintVisit(s0, current, HintDirections[1], map, keysCollected, goal)
           s2 == HintVisit(s1, current, HintDirections[2], map, keysCollected, goal)
           s3 == HintVisit(s2, current, HintDirections[3], map, keysCollected, goal)
           s4 == HintVisit(s3, current, HintDirections[4], map, keysCollected, goal)
       IN HintSearch(s4, map, keysCollected, goal)

\* lines 830-838: the path from the player to the goal, the player's cell left out
RECURSIVE HintPath(_, _, _)
HintPath(cur, parent, playerPos) ==
  IF cur = playerPos THEN <<>>
  ELSE LET links == {l \in parent : l.cell = cur}
       IN IF links = {} THEN <<cur>>
          ELSE Append(HintPath((CHOOSE l \in links : TRUE).from, parent, playerPos), cur)

\* lines 800-829: the cells next to the player that a hint may cross
PossibleMoves(map, playerPos, keysCollected) ==
  {n \in {Pos(playerPos.x + HintDirections[i].x, playerPos.y + HintDirections[i].y) :
            i \in 1..4} :
     InGrid(map, n) /\ HintTraversable(map, keysCollected, n)}

HintResult(kind, tile, tiles) == [kind |-> kind, hintTile |-> tile, reachableTiles |-> tiles]

\* lines 741-847: what useHint shows for the grid, position and keys it reads
useHintResult(map, playerPos, keysCollected) ==
  IF FindGoal(map) = {} THEN HintResult("noGoal", {}, {})
  ELSE LET goal == CHOOSE g \in FindGoal(map) : TRUE
           search == HintSearch([queue |-> <<playerPos>>, visited |-> {playerPos},
                                 parent |-> {}, found |-> FALSE],
                                map, keysCollected, goal)
           possibleMoves == PossibleMoves(map, playerPos, keysCollected)
           path == HintPath(goal, search.parent, playerPos)
       IN IF ~search.found
          THEN IF possibleMoves # {} THEN HintResult("noPath", {}, possibleMoves)
               ELSE HintResult("stuck", {}, {})
          ELSE IF Len(path) > 0 THEN HintResult("hint", {path[1]}, {})
               ELSE HintResult("atGoal", {}, {})

(***************************************************************************)
(* The keyboard effect, lines 657-692: its handler is registered again     *)
(* when movePlayer (deps gameStatus, toast; line 636) or initializeLevel   *)
(* (deps generateAdaptiveLevel, levelMetrics, level; line 655) is a new    *)
(* function; toast and generateAdaptiveLevel are the same in every render. *)
(* The useHint the handler calls reads the gameState of the render that    *)
(* registered it.                                                          *)
(***************************************************************************)
KeyHandlerDeps(closure) == <<closure.gameStatus, closure.levelMetrics, closure.level>>

\* the closure, held as what useHint computes from it (lines 741-847)
KeyClosure(gs) == useHintResult(gs.currentMap, gs.playerPos, gs.keysCollected)

\* the closure is followed in the runs that press key H (SpecKeys); in the
\* other runs nothing reads it
Untracked == [none |-> TRUE]

RegisteredHandler(handler, deps, closure) ==
  IF handler # Untracked /\ deps THEN closure ELSE handler

(***************************************************************************)
(* The component: the hook state, the stored profile, the trap interval    *)
(* and the closure of the last render.                                     *)
(***************************************************************************)
Component(gs, lm, slc, data, timer, closure, handler) ==
  [gameState |-> gs, levelMetrics |-> lm, showLevelComplete |-> slc,
   store |-> data, trapTimer |-> timer, rendered |-> closure, keyHandler |-> handler]

Current ==
  Component(gameState, levelMetrics, showLevelComplete, store, trapTimer, rendered,
            keyHandler)

\* one render with the state of c, then the effects whose dependencies
\* changed: saveProgress (699-702), completion (704-726), trap interval (866)
RenderOnce(c) ==
  LET old == c.rendered
      snap == Snapshot(c.gameState, c.levelMetrics, c.showLevelComplete)
      saved == IF <<snap.level, snap.score, snap.xp, snap.coins>>
                  # <<old.level, old.score, old.xp, old.coins>>
               THEN saveProgress(c.store, snap) ELSE c.store
      completionDeps == <<snap.gameStatus, snap.completionData, snap.retries>>
                        # <<old.gameStatus, old.completionData, old.retries>>
      timer == IF snap.gameStatus # old.gameStatus THEN TrapTimerFor(snap) ELSE c.trapTimer
      handler == RegisteredHandler(c.keyHandler, KeyHandlerDeps(snap) # KeyHandlerDeps(old),
                                   KeyClosure(c.gameState))
  IN IF completionDeps /\ CompletionPending(snap)
     THEN Component([c.gameState EXCEPT !.completionData = NoCompletion],
                    snap.completionData, TRUE, SaveAchievements(saved, snap), timer, snap,
                    handler)
     ELSE Component(c.gameState, c.levelMetrics, c.showLevelComplete, saved, timer, snap,
                    handler)

\* renders until the closure shows the state: an update made in a handler
\* of a key, click or touch event is rendered, and its effects are run,
\* before the next event is handled
RECURSIVE Rendered(_)
Rendered(c) ==
  IF Snapshot(c.gameState, c.levelMetrics, c.showLevelComplete) = c.rendered THEN c
  ELSE Rendered(RenderOnce(c))

Commit(c) ==
  /\ gameState' = c.gameState
  /\ levelMetrics' = c.levelMetrics
  /\ showLevelComplete' = c.showLevelComplete
  /\ store' = c.store
  /\ trapTimer' = c.trapTimer
  /\ rendered' = c.rendered
  /\ keyHandler' = c.keyHandler

\* the state of a handler's updaters, rendered
AfterHandler(gs, slc) ==
  Rendered(Component(gs, levelMetrics, slc, store, trapTimer, rendered, keyHandler))

(***************************************************************************)
(* The first commit: the mount effects in source order (load the profile,  *)
(* initializeLevel, saveProgress, the trap interval), all with the values  *)
(* of the first render.  The state they set is rendered later.             *)
(***************************************************************************)
Mount ==
  /\ ~mounted
  /\ \E out \in GeneratedLevels(rendered) :
       gameState' = InitializeLevelUpdate(LoadUpdate(gameState, getUserData(store)), out)
  /\ store' = saveProgress(store, rendered)
  /\ trapTimer' = TrapTimerFor(rendered)
  /\ keyHandler' = RegisteredHandler(keyHandler, TRUE, KeyClosure(gameState))
  /\ mounted' = TRUE
  /\ dirty' = TRUE
  /\ lastEvent' = PlainEvent("mount")
  /\ UNCHANGED <<difficultySetting, levelMetrics, showLevelComplete, rendered, inits,
                 highlights>>

\* the render of the state set by the mount effects
Render ==
  /\ mounted
  /\ dirty
  /\ Commit(Rendered(RenderOnce(Current)))
  /\ dirty' = FALSE
  /\ lastEvent' = PlainEvent("render")
  /\ UNCHANGED <<difficultySetting, mounted, inits, highlights>>

(***************************************************************************)
(* The Board Transform of movePlayer, lines 583-631.                       *)
(***************************************************************************)
RotationPeriod == 20

\* lines 593-599: every key and the goal are taken off the rotated map
\* C19 mutant: the old keys stay on the board
RemoveGoalOnly(rotatedMap) ==
  LET N == Size(rotatedMap)
  IN Array([py \in 0..(N - 1) |->
       Array([px \in 0..(N - 1) |->
         IF rotatedMap[py][px] = GOAL THEN EMPTY ELSE rotatedMap[py][px]])])

RemoveKeysAndGoal(rotatedMap) ==
  LET N == Size(rotatedMap)
  IN Array([py \in 0..(N - 1) |->
       Array([px \in 0..(N - 1) |->
         IF rotatedMap[py][px] = KEY \/ rotatedMap[py][px] = GOAL
         THEN EMPTY ELSE rotatedMap[py][px]])])

\* lines 601-609: keysToPlace keys, each on a random empty cell
RECURSIVE PlaceKeys(_, _)
PlaceKeys(maps, keysToPlace) ==
  IF keysToPlace <= 0 THEN maps
  ELSE PlaceKeys(UNION {IF getEmptyPositions(m) = {} THEN {m}
                        ELSE {SetTile(m, c.x, c.y, KEY) : c \in getEmptyPositions(m)} :
                        m \in maps},
                 keysToPlace - 1)

\* C4 mutant: the Board Transform puts no goal back
PlaceNoGoal(rotatedMap) == {rotatedMap}

\* lines 610-629: the goal on a random empty cell, else on a random non-wall cell
PlaceGoal(rotatedMap) ==
  LET empty == getEmptyPositions(rotatedMap)
      candidates == {c \in Cells(Size(rotatedMap)) : rotatedMap[c.y][c.x] # WALL}
  IN IF empty # {} THEN {SetTile(rotatedMap, c.x, c.y, GOAL) : c \in empty}
     ELSE IF candidates # {} THEN {SetTile(rotatedMap, c.x, c.y, GOAL) : c \in candidates}
     ELSE {rotatedMap}

BoardTransform(newState) ==
  LET N == Size(newState.currentMap)
      cleared == RemoveKeysAndGoal(rotateMatrix(newState.currentMap))
      keyed == PlaceKeys({cleared}, newState.totalKeys)
      final == UNION {PlaceGoal(m) : m \in keyed}
  IN {[newState EXCEPT !.playerPos = rotatePos(newState.playerPos, N),
                       !.currentMap = m] : m \in final}

\* C16 mutant: the Board Transform of every difficulty setting
TransformDueAnySetting(newState) ==
  newState.moves > 0 /\ newState.moves % RotationPeriod = 0

TransformDue(newState) ==
  difficultySetting = "hard" /\ newState.moves > 0 /\ newState.moves % RotationPeriod = 0

(***************************************************************************)
(* The state updater of movePlayer, lines 488-634.                         *)
(***************************************************************************)
\* C10 mutant: the time bonus is not kept at or above zero
GoalScoreLateTime(prev, newState, timeToComplete) ==
  LET timeBonus == (120000 - timeToComplete) \div 1000
      moveBonus == Max(0, (100 - newState.moves) * 5)
      levelBonus == prev.level * 100
      perfectBonus == IF newState.retries = 0 THEN prev.level * 50 ELSE 0
  IN timeBonus + moveBonus + levelBonus + perfectBonus

\* lines 558-563
GoalScore(prev, newState, timeToComplete) ==
  LET timeBonus == Max(0, (120000 - timeToComplete) \div 1000)
      moveBonus == Max(0, (100 - newState.moves) * 5)
      levelBonus == prev.level * 100
      perfectBonus == IF newState.retries = 0 THEN prev.level * 50 ELSE 0
  IN timeBonus + moveBonus + levelBonus + perfectBonus

\* lines 520-529: a key is picked up
CollectKey(prev, moved, newX, newY) ==
  [moved EXCEPT !.currentMap = SetTile(prev.currentMap, newX, newY, EMPTY),
                !.keysCollected = @ + 1,
                !.coins = @ + 10]

\* C8 mutant: the door opens and the key is kept
OpenDoorKeepKey(prev, moved, newX, newY) ==
  [moved EXCEPT !.currentMap = SetTile(prev.currentMap, newX, newY, EMPTY),
                !.score = @ + 50]

\* lines 530-538: a door is opened with a key
OpenDoor(prev, moved, newX, newY) ==
  [moved EXCEPT !.currentMap = SetTile(prev.currentMap, newX, newY, EMPTY),
                !.keysCollected = @ - 1,
                !.score = @ + 50]

\* C9 mutant: the score goes below zero
TriggerTrapUnclamped(moved) ==
  [moved EXCEPT !.playerPos = Pos(1, 1),
                !.retries = @ + 1,
                !.score = @ - 25]

\* C12 mutant: the score is clamped one penalty too low
TriggerTrapLowClamp(moved) ==
  [moved EXCEPT !.playerPos = Pos(1, 1),
                !.retries = @ + 1,
                !.score = Max(0 - 25, @ - 25)]

\* lines 539-554: a trap sends the player back to the start
TriggerTrap(moved) ==
  [moved EXCEPT !.playerPos = Pos(1, 1),
                !.retries = @ + 1,
                !.score = Max(0, @ - 25)]

\* lines 555-581: the goal completes the level
ReachGoal(prev, moved, timeToComplete) ==
  [moved EXCEPT !.gameStatus = "completed",
                !.score = @ + GoalScore(prev, moved, timeToComplete),
                !.xp = @ + prev.level * 50
                         + (IF moved.retries = 0 THEN prev.level * 50 ELSE 0),
                !.coins = @ + prev.level * 20,
                !.completionData =
                   [timeToComplete |-> timeToComplete,
                    movesUsed |-> moved.moves,
                    retriesUsed |-> moved.retries,
                    hintsUsed |-> moved.hintsUsed,
                    difficultyScore10 |-> prev.level * 5]]

\* lines 516-581: the effect of the tile stepped on
TileEffect(prev, newX, newY, targetTile, timeToComplete) ==
  LET moved == [prev EXCEPT !.playerPos = Pos(newX, newY), !.moves = @ + 1]
  IN CASE targetTile = KEY -> CollectKey(prev, moved, newX, newY)
       [] targetTile = DOOR /\ prev.keysCollected > 0 -> OpenDoor(prev, moved, newX, newY)
       [] targetTile = TRAP -> TriggerTrap(moved)
       [] targetTile = GOAL -> ReachGoal(prev, moved, timeToComplete)
       [] OTHER -> moved

Outcome(state, tile, at, accepted, rotated) ==
  [state |-> state, event |-> Event("move", tile, at, accepted, rotated)]

\* C6 mutant: no tile stops a move
IsWallNever(targetTile) == FALSE

\* line 499
IsWall(targetTile) == targetTile = WALL

\* C7 mutant: a door is never locked
DoorNeverLocked(prev, targetTile) == FALSE

\* line 503
DoorLocked(prev, targetTile) == targetTile = DOOR /\ prev.keysCollected = 0

movePlayerUpdate(prev, dx, dy, timeToComplete) ==
  LET newX == prev.playerPos.x + dx
      newY == prev.playerPos.y + dy
      N == Size(prev.currentMap)
  IN IF newX < 0 \/ newX >= N \/ newY < 0 \/ newY >= N
     THEN {[state |-> prev, event |-> NoMoveEvent("moveOutside")]}
     ELSE LET targetTile == prev.currentMap[newY][newX]
              at == Pos(newX, newY)
              newState == TileEffect(prev, newX, newY, targetTile, timeToComplete)
          IN IF IsWall(targetTile) THEN {Outcome(prev, targetTile, at, FALSE, FALSE)}
             ELSE IF DoorLocked(prev, targetTile)
                  THEN {Outcome(prev, targetTile, at, FALSE, FALSE)}
             ELSE IF TransformDue(newState)
                  THEN {Outcome(t, targetTile, at, TRUE, TRUE) : t \in BoardTransform(newState)}
             ELSE {Outcome(newState, targetTile, at, TRUE, FALSE)}

\* Date.now() - prev.startTime, in milliseconds
ElapsedChoices == {50000, 130000}

(***************************************************************************)
(* movePlayer, lines 484-637.  The guard reads the status the last render  *)
(* saw; the updater runs on the latest state.                              *)
(***************************************************************************)
\* C5 mutant: the handler has no guard
MoveAlwaysAllowed(closure) == TRUE

MoveAllowed(closure) == closure.gameStatus = "playing"

MovePlayer(dx, dy) ==
  /\ mounted
  /\ ~dirty
  /\ gameState.moves < MaxMoves
  /\ IF MoveAllowed(rendered)
     THEN \E timeToComplete \in ElapsedChoices :
            \E o \in movePlayerUpdate(gameState, dx, dy, timeToComplete) :
               /\ o.state.retries <= MaxRetries
               /\ Commit(AfterHandler(o.state, showLevelComplete))
               /\ hintTile' = IF o.event.accepted THEN {} ELSE hintTile
               /\ reachableTiles' = IF o.event.accepted THEN {} ELSE reachableTiles
               /\ lastEvent' = o.event
     ELSE /\ lastEvent' = NoMoveEvent("moveIgnored")
          /\ UNCHANGED <<gameState, levelMetrics, showLevelComplete, store, trapTimer,
                         rendered, highlights, keyHandler>>
  /\ UNCHANGED <<difficultySetting, mounted, inits, dirty>>

(***************************************************************************)
(* The trap interval callback, lines 869-901.                              *)
(***************************************************************************)
TickAttempts == 50

\* lines 881-883: every trap is taken off the map
RemoveTraps(currentMap) ==
  LET N == Size(currentMap)
  IN Array([py \in 0..(N - 1) |->
       Array([px \in 0..(N - 1) |->
         IF currentMap[py][px] = TRAP THEN EMPTY ELSE currentMap[py][px]])])

\* C21 mutant: the player's cell is not excluded
TickAttemptAnyEmpty(s, player, px, py) ==
  IF s.map[py][px] = EMPTY
  THEN LoopState(SetTile(s.map, px, py, TRAP), s.placed + 1)
  ELSE s

\* lines 889-898: one attempt to put a trap at (px, py)
TickAttempt(s, player, px, py) ==
  IF s.map[py][px] = EMPTY /\ ~(px = player.x /\ py = player.y)
  THEN LoopState(SetTile(s.map, px, py, TRAP), s.placed + 1)
  ELSE s

\* lines 886-899: the loop of one trap over random cells of the whole grid
RECURSIVE TickInnerLoop(_, _, _)
TickInnerLoop(states, player, attempts) ==
  IF attempts >= TickAttempts \/ \A s \in states : s.placed >= 1
  THEN states
  ELSE LET nxt == {s \in states : s.placed >= 1} \cup
                  UNION {{TickAttempt(s, player, c.x, c.y) : c \in Cells(Size(s.map))} :
                           s \in {t \in states : t.placed < 1}}
       IN IF nxt = states THEN states
          ELSE TickInnerLoop(nxt, player, attempts + 1)

\* lines 885-900: one loop for each trap found
RECURSIVE TickLoop(_, _, _)
TickLoop(maps, player, traps) ==
  IF traps <= 0 THEN maps
  ELSE LET nxt == UNION {{s.map : s \in TickInnerLoop({LoopState(m, 0)}, player, 0)} :
                           m \in maps}
       IN IF nxt = maps THEN maps
          ELSE TickLoop(nxt, player, traps - 1)

moveTraps(prev) ==
  {[prev EXCEPT !.currentMap = m] :
     m \in TickLoop({RemoveTraps(prev.currentMap)}, prev.playerPos,
                    CountTiles(prev.currentMap, TRAP))}

TrapTick ==
  /\ mounted
  /\ ~dirty
  /\ trapTimer
  /\ \E t \in moveTraps(gameState) : gameState' = t
  /\ lastEvent' = PlainEvent("tick")
  /\ UNCHANGED <<difficultySetting, store, levelMetrics, showLevelComplete,
                 rendered, trapTimer, mounted, inits, dirty, highlights, keyHandler>>

(***************************************************************************)
(* The handlers that start a level: key R (line 687), restartLevel (lines  *)
(* 734-737) and nextLevel (lines 728-732).  initializeLevel is the         *)
(* callback of the last render.                                            *)
(***************************************************************************)
KeyR ==
  /\ mounted
  /\ ~dirty
  /\ inits < MaxInits
  /\ gameState.moves <= RestartMoves
  /\ \E out \in GeneratedLevels(rendered) :
       Commit(AfterHandler(InitializeLevelUpdate(gameState, out), showLevelComplete))
  /\ inits' = inits + 1
  /\ lastEvent' = PlainEvent("keyR")
  /\ UNCHANGED <<difficultySetting, mounted, dirty, highlights>>

RestartLevel ==
  /\ mounted
  /\ ~dirty
  /\ inits < MaxInits
  /\ gameState.moves <= RestartMoves
  /\ gameState.retries < MaxRetries
  /\ \E out \in GeneratedLevels(rendered) :
       Commit(AfterHandler(InitializeLevelUpdate([gameState EXCEPT !.retries = @ + 1], out),
                           showLevelComplete))
  /\ inits' = inits + 1
  /\ lastEvent' = PlainEvent("restart")
  /\ UNCHANGED <<difficultySetting, mounted, dirty, highlights>>

\* the Next Level button is part of the level-complete modal, line 1207
ModalShown(closure) == closure.showLevelComplete /\ closure.levelMetrics # NoMetrics

\* C13 mutant: the level number goes up by two
nextLevelSkip(prev) == [prev EXCEPT !.level = @ + 2]

\* line 729
nextLevelUpdate(prev) == [prev EXCEPT !.level = @ + 1]

NextLevel ==
  /\ mounted
  /\ ~dirty
  /\ inits < MaxInits
  /\ gameState.moves <= EarlyMoves
  /\ ModalShown(rendered)
  /\ \E out \in GeneratedLevels(rendered) :
       Commit(AfterHandler(InitializeLevelUpdate(nextLevelUpdate(gameState), out),
                           FALSE))
  /\ inits' = inits + 1
  /\ lastEvent' = PlainEvent("next")
  /\ UNCHANGED <<difficultySetting, mounted, dirty, highlights>>

(***************************************************************************)
(* useHint, lines 739-848 (the Hint button, line 1068, and key H, line     *)
(* 681).  Its only update of the game state is the first line; the search  *)
(* that follows sets the highlighted tiles, which no other handler reads.  *)
(***************************************************************************)
\* C25 mutant: a hint counts as a move too
useHintCountsMove(prev) == [prev EXCEPT !.hintsUsed = @ + 1, !.moves = @ + 1]

useHintUpdate(prev) == [prev EXCEPT !.hintsUsed = @ + 1]

\* the Hint button of the last render: its useHint holds the state that the
\* render showed
UseHint ==
  /\ mounted
  /\ ~dirty
  /\ gameState.hintsUsed < MaxHints
  /\ gameState.moves <= HintMoves
  /\ Commit(AfterHandler(useHintUpdate(gameState), showLevelComplete))
  /\ LET shown == useHintResult(gameState.currentMap, gameState.playerPos,
                                gameState.keysCollected)
     IN /\ hintTile' = IF shown.kind = "hint" THEN shown.hintTile ELSE hintTile
        /\ reachableTiles' = IF shown.kind = "noPath" THEN shown.reachableTiles
                             ELSE reachableTiles
        /\ lastEvent' = Event("hint", EMPTY, gameState.playerPos, TRUE, FALSE)
  /\ UNCHANGED <<difficultySetting, mounted, inits, dirty>>

\* lines 823 and 843: three seconds after a hint its highlight is taken away
HintTimeout ==
  /\ highlights # <<{}, {}>>
  /\ hintTile' = {}
  /\ reachableTiles' = {}
  /\ lastEvent' = PlainEvent("hintTimeout")
  /\ UNCHANGED <<difficultySetting, store, gameState, levelMetrics, showLevelComplete,
                 rendered, trapTimer, mounted, inits, dirty, keyHandler>>

\* key H, line 681: the useHint of the render that registered the keydown
\* handler; its updater adds to hintsUsed, its search reads that render's state
KeyH ==
  /\ mounted
  /\ ~dirty
  /\ keyHandler # Untracked
  /\ gameState.hintsUsed < MaxHints
  /\ gameState.moves <= HintMoves
  /\ Commit(AfterHandler(useHintUpdate(gameState), showLevelComplete))
  /\ hintTile' = IF keyHandler.kind = "hint" THEN keyHandler.hintTile ELSE hintTile
  /\ reachableTiles' = IF keyHandler.kind = "noPath" THEN keyHandler.reachableTiles
                       ELSE reachableTiles
  /\ lastEvent' = Event("keyH", EMPTY, gameState.playerPos, TRUE, FALSE)
  /\ UNCHANGED <<difficultySetting, mounted, inits, dirty>>

(***************************************************************************)
(* The game from a stored profile and a difficulty setting.                *)
(***************************************************************************)
StoredLevels == {14}

StoredProfiles == {JSONstringify([defaultUserData EXCEPT !.level = l]) : l \in StoredLevels}

Init ==
  /\ difficultySetting \in Settings
  /\ store \in StoredProfiles
  /\ gameState = InitialGameState
  /\ levelMetrics = NoMetrics
  /\ showLevelComplete = FALSE
  /\ rendered = Snapshot(InitialGameState, NoMetrics, FALSE)
  /\ trapTimer = FALSE
  /\ mounted = FALSE
  /\ inits = 0
  /\ dirty = FALSE
  /\ hintTile = {}
  /\ reachableTiles = {}
  /\ keyHandler = Untracked
  /\ lastEvent = PlainEvent("init")

Next ==
  \/ Mount
  \/ Render
  \/ \E d \in Directions : MovePlayer(d.x, d.y)
  \/ TrapTick
  \/ KeyR
  \/ RestartLevel
  \/ NextLevel
  \/ UseHint
  \/ HintTimeout

Spec == Init /\ [][Next]_vars

\* The game with the timer's scheduling, over the first moves of a level:
\* React renders the state set in the mount effects, and setInterval
\* (line 869) runs its callback again and again while it is registered.
NextTimer ==
  \/ Mount
  \/ Render
  \/ \E d \in Directions : gameState.moves < TimerMoves /\ MovePlayer(d.x, d.y)
  \/ TrapTick
  \/ KeyR
  \/ RestartLevel
  \/ NextLevel
  \/ UseHint
  \/ HintTimeout

SpecTimer == Init /\ [][NextTimer]_vars /\ WF_vars(Render) /\ WF_vars(TrapTick)

\* The game played with the keyboard, over the first moves of a level: the
\* keydown handler is registered by the effects of the first render.
InitKeys ==
  /\ difficultySetting \in Settings
  /\ store \in StoredProfiles
  /\ gameState = InitialGameState
  /\ levelMetrics = NoMetrics
  /\ showLevelComplete = FALSE
  /\ rendered = Snapshot(InitialGameState, NoMetrics, FALSE)
  /\ trapTimer = FALSE
  /\ mounted = FALSE
  /\ inits = 0
  /\ dirty = FALSE
  /\ hintTile = {}
  /\ reachableTiles = {}
  /\ keyHandler = KeyClosure(InitialGameState)
  /\ lastEvent = PlainEvent("init")

NextKeys ==
  \/ Mount
  \/ Render
  \/ \E d \in Directions : gameState.moves < KeyMoves /\ MovePlayer(d.x, d.y)
  \/ TrapTick
  \/ KeyR
  \/ RestartLevel
  \/ NextLevel
  \/ UseHint
  \/ KeyH
  \/ HintTimeout

SpecKeys == InitKeys /\ [][NextKeys]_vars


(***************************************************************************)
(* Level generation alone: generateAdaptiveLevel, through initializeLevel, *)
(* for every difficulty setting, level number and kind of metrics.         *)
(***************************************************************************)
GenMetrics ==
  {NoMetrics,
   [timeToComplete |-> 20000, movesUsed |-> 10, retriesUsed |-> 0,
    hintsUsed |-> 0, difficultyScore10 |-> 5],
   [timeToComplete |-> 50000, movesUsed |-> 30, retriesUsed |-> 3,
    hintsUsed |-> 2, difficultyScore10 |-> 5],
   [timeToComplete |-> 29999, movesUsed |-> 25, retriesUsed |-> 2,
    hintsUsed |-> 1, difficultyScore10 |-> 5],
   [timeToComplete |-> 30000, movesUsed |-> 24, retriesUsed |-> 2,
    hintsUsed |-> 1, difficultyScore10 |-> 5],
   [timeToComplete |-> 30000, movesUsed |-> 25, retriesUsed |-> 3,
    hintsUsed |-> 1, difficultyScore10 |-> 5],
   [timeToComplete |-> 30000, movesUsed |-> 25, retriesUsed |-> 2,
    hintsUsed |-> 2, difficultyScore10 |-> 5],
   [timeToComplete |-> 30000, movesUsed |-> 25, retriesUsed |-> 2,
    hintsUsed |-> 1, difficultyScore10 |-> 5]}

InitGen ==
  /\ difficultySetting \in Settings
  /\ store \in StoredProfiles
  /\ \E lvl \in 1..MaxLevel, lm \in GenMetrics :
       /\ gameState = [InitialGameState EXCEPT !.level = lvl]
       /\ levelMetrics = lm
       /\ rendered = Snapshot([InitialGameState EXCEPT !.level = lvl], lm, FALSE)
  /\ showLevelComplete = FALSE
  /\ trapTimer = FALSE
  /\ mounted = FALSE
  /\ inits = 0
  /\ dirty = FALSE
  /\ hintTile = {}
  /\ reachableTiles = {}
  /\ keyHandler = Untracked
  /\ lastEvent = PlainEvent("init")

\* initializeLevel, lines 639-655
GenerateLevel ==
  /\ inits = 0
  /\ \E out \in GeneratedLevels(rendered) :
       gameState' = InitializeLevelUpdate(gameState, out)
  /\ inits' = 1
  /\ lastEvent' = PlainEvent("generate")
  /\ UNCHANGED <<difficultySetting, store, levelMetrics, showLevelComplete,
                 rendered, trapTimer, mounted, dirty, highlights, keyHandler>>

NextGen == GenerateLevel

SpecGen == InitGen /\ [][NextGen]_vars

(***************************************************************************)
(* The profile store alone: getUserData, saveUserData and resetUserData    *)
(* called on every kind of stored item, in every state of localStorage.    *)
(***************************************************************************)
StoredObjects ==
  {[level |-> 3],
   [level |-> 3, score |-> 120, xp |-> 40, coins |-> 7],
   [defaultUserData EXCEPT !.level = 2, !.achievements = <<"Perfect Run">>]}

StoreItems == {NoData, EmptyText, Unparsable} \cup {JSONstringify(o) : o \in StoredObjects}

\* the partial profiles of the callers: saveProgress (248), the completion
\* effect (720), the settings page
Partials ==
  {[level |-> 4, score |-> 200, xp |-> 60, coins |-> 9],
   [achievements |-> <<"Efficient Navigator">>],
   [settings |-> [sound |-> FALSE, theme |-> "dark"]]}

StoreCall(op, storage, partial, result) ==
  [op |-> op, storage |-> storage, partial |-> partial, result |-> result]

InitStore ==
  /\ difficultySetting = "medium"
  /\ store \in StoreItems
  /\ gameState = InitialGameState
  /\ levelMetrics = NoMetrics
  /\ showLevelComplete = FALSE
  /\ rendered = Snapshot(InitialGameState, NoMetrics, FALSE)
  /\ trapTimer = FALSE
  /\ mounted = FALSE
  /\ inits = 0
  /\ dirty = FALSE
  /\ hintTile = {}
  /\ reachableTiles = {}
  /\ keyHandler = Untracked
  /\ lastEvent = PlainEvent("init")

GetUserData ==
  /\ \E storage \in StorageStates :
       lastEvent' = StoreCall("getUserData", storage, <<>>, getUserDataCall(store, storage))
  /\ UNCHANGED <<difficultySetting, store, gameState, levelMetrics, showLevelComplete,
                 rendered, trapTimer, mounted, inits, dirty, highlights, keyHandler>>

SaveUserData ==
  /\ \E partial \in Partials, storage \in StorageStates :
       /\ store' = saveUserDataCall(store, partial, storage).value
       /\ lastEvent' = StoreCall("saveUserData", storage, partial,
                                 saveUserDataCall(store, partial, storage))
  /\ UNCHANGED <<difficultySetting, gameState, levelMetrics, showLevelComplete,
                 rendered, trapTimer, mounted, inits, dirty, highlights, keyHandler>>

ResetUserData ==
  /\ store' = resetUserData(store)
  /\ lastEvent' = StoreCall("resetUserData", "available", <<>>, Returned(NoData))
  /\ UNCHANGED <<difficultySetting, gameState, levelMetrics, showLevelComplete,
                 rendered, trapTimer, mounted, inits, dirty, highlights, keyHandler>>

NextStore ==
  \/ GetUserData
  \/ SaveUserData
  \/ ResetUserData

SpecStore == InitStore /\ [][NextStore]_vars

(***************************************************************************)
(* Properties of a generated grid.                                         *)
(***************************************************************************)
Tile(grid, c) == grid[c.y][c.x]

Adjacent(c, e) ==
  \/ c.x = e.x /\ (c.y = e.y + 1 \/ e.y = c.y + 1)
  \/ c.y = e.y /\ (c.x = e.x + 1 \/ e.x = c.x + 1)

\* the cells joined to the cells of seen by steps between orthogonal
\* neighbours over cells that are not walls
RECURSIVE OpenCells(_, _)
OpenCells(grid, seen) ==
  LET more == {c \in Cells(Size(grid)) :
                 /\ c \notin seen
                 /\ Tile(grid, c) # WALL
                 /\ \E e \in seen : Adjacent(c, e)}
  IN IF more = {} THEN seen ELSE OpenCells(grid, seen \cup more)

HasOpenPath(grid) ==
  \E g \in OpenCells(grid, {StartPos}) : Tile(grid, g) = GOAL

Generated == lastEvent.op = "generate"

\* C1: every grid the generator returns has a path of non-Wall cells, by
\* steps between orthogonal neighbours, from the start cell (1,1) to the
\* Goal: the start cell is not a Wall and the Goal is joined to it.
C1_PathToGoal ==
  Generated => /\ Tile(gameState.currentMap, StartPos) # WALL
               /\ HasOpenPath(gameState.currentMap)

\* C1 witness: a generated grid that holds a wall inside the outer ring and
\* a path from the start cell to the Goal.
C1_Witness ==
  /\ Generated
  /\ \E c \in RandomCells(GridN) : Tile(gameState.currentMap, c) = WALL
  /\ Tile(gameState.currentMap, StartPos) # WALL
  /\ HasOpenPath(gameState.currentMap)

(***************************************************************************)
(* Solvability under the rules of movePlayer: a key is picked up by        *)
(* stepping on it, a door opens for one key, a trap sends the player back  *)
(* to the start, the goal ends the level.                                  *)
(***************************************************************************)
Walk(pos, keys, taken) == [pos |-> pos, keys |-> keys, taken |-> taken]

\* the tile at c after the cells of taken have been emptied
TileLeft(grid, taken, c) == IF c \in taken THEN EMPTY ELSE Tile(grid, c)

WalkSteps(grid, w) ==
  {IF TileLeft(grid, w.taken, c) = KEY THEN Walk(c, w.keys + 1, w.taken \cup {c})
   ELSE IF TileLeft(grid, w.taken, c) = DOOR THEN Walk(c, w.keys - 1, w.taken \cup {c})
   ELSE IF TileLeft(grid, w.taken, c) = TRAP THEN Walk(StartPos, w.keys, w.taken)
   ELSE Walk(c, w.keys, w.taken) :
     c \in {e \in Cells(Size(grid)) :
              /\ Adjacent(e, w.pos)
              /\ TileLeft(grid, w.taken, e) # WALL
              /\ ~(TileLeft(grid, w.taken, e) = DOOR /\ w.keys = 0)}}

RECURSIVE Walks(_, _)
Walks(grid, seen) ==
  LET more == (UNION {WalkSteps(grid, w) : w \in seen}) \ seen
  IN IF more = {} THEN seen ELSE Walks(grid, seen \cup more)

Solvable(grid) ==
  \E w \in Walks(grid, {Walk(StartPos, 0, {})}) : Tile(grid, w.pos) = GOAL

\* C2: every grid the generator returns can be completed: the Goal can be
\* reached from the start cell under the key and door rules.
C2_Solvable == Generated => Solvable(gameState.currentMap)

\* C2: a generated grid with a door in it that can be completed.
C2_Witness ==
  /\ Generated
  /\ CountTiles(gameState.currentMap, DOOR) > 0
  /\ Solvable(gameState.currentMap)

(***************************************************************************)
(* Properties of the grid during play.                                     *)
(***************************************************************************)
Ring(N) == {c \in Cells(N) : c.x = 0 \/ c.y = 0 \/ c.x = N - 1 \/ c.y = N - 1}

LevelStarted == lastEvent.op \in {"mount", "keyR", "restart", "next"}

\* C3: in every state from the first generation on, every cell of row 0,
\* row N-1, column 0 and column N-1 of the grid is a Wall.
C3_RingIsWall ==
  mounted => /\ Size(gameState.currentMap) = GridN
             /\ \A c \in Ring(GridN) : Tile(gameState.currentMap, c) = WALL

\* C3 witness: a Board Transform has rotated the grid and a wall stands
\* inside the ring.
C3_Witness ==
  /\ lastEvent.rotated
  /\ \E c \in RandomCells(GridN) : Tile(gameState.currentMap, c) = WALL

\* C4: the grid holds exactly one Goal in every state from the first
\* generation on, and a level starts with it at (N-2, N-2).
C4_OneGoal ==
  mounted => /\ CountTiles(gameState.currentMap, GOAL) = 1
             /\ LevelStarted => Tile(gameState.currentMap, GoalPos(GridN)) = GOAL

\* C4 witness: a Board Transform has put the Goal on another cell.
C4_Witness ==
  /\ lastEvent.rotated
  /\ Tile(gameState.currentMap, GoalPos(GridN)) # GOAL
  /\ CountTiles(gameState.currentMap, GOAL) = 1

IsMoveRequest(e) == e.op \in {"move", "moveOutside", "moveIgnored"}

\* C5: a move requested while gameStatus is not Playing changes nothing of
\* the game state.
C5_NoMoveUnlessPlaying ==
  [][(gameState.gameStatus # "playing" /\ IsMoveRequest(lastEvent'))
       => gameState' = gameState]_vars

\* C5 witness: a move was requested after the level was completed.
C5_Witness ==
  /\ lastEvent.op = "moveIgnored"
  /\ gameState.gameStatus = "completed"

\* the updater sends a move that leaves the grid back unchanged, from any
\* cell of the ring
OutsideRejected ==
  \A c \in Ring(Size(gameState.currentMap)), d \in Directions, t \in ElapsedChoices :
    LET from == [gameState EXCEPT !.playerPos = c]
    IN (Pos(c.x + d.x, c.y + d.y) \notin Cells(Size(gameState.currentMap)))
         => \A o \in movePlayerUpdate(from, d.x, d.y, t) :
              o.state = from /\ ~o.event.rotated

\* C6: a move whose target is a Wall or outside the grid leaves the game
\* state as it was and starts no Board Transform.  No move of a play leaves
\* the grid, the ring being walls, so the updater is also applied to every
\* cell of each grid a level starts with.
C6_WallRejected ==
  [][/\ (lastEvent'.op = "moveOutside" \/ (lastEvent'.op = "move" /\ lastEvent'.tile = WALL))
          => (gameState' = gameState /\ ~lastEvent'.rotated /\ ~lastEvent'.accepted)
     /\ LevelStarted => OutsideRejected]_vars

\* C6 witness: a move into a wall on a move count where a Board Transform
\* would be due.
C6_Witness ==
  /\ lastEvent.op = "move"
  /\ lastEvent.tile = WALL
  /\ difficultySetting = "hard"
  /\ gameState.moves = RotationPeriod - 1

\* C7: a move onto a Door with no key collected changes nothing: position,
\* moves, score, keysCollected and the grid stay, and the Door stays a Door.
C7_LockedDoor ==
  [][(lastEvent'.op = "move" /\ lastEvent'.tile = DOOR /\ gameState.keysCollected = 0)
       => /\ gameState' = gameState
          /\ Tile(gameState'.currentMap, lastEvent'.at) = DOOR
          /\ ~lastEvent'.accepted]_vars

\* C7 witness: a move onto a door without a key.
C7_Witness ==
  /\ lastEvent.op = "move"
  /\ lastEvent.tile = DOOR
  /\ ~lastEvent.accepted
  /\ gameState.keysCollected = 0

(***************************************************************************)
(* Properties of the tile effects of an accepted move.                     *)
(***************************************************************************)
KeyMove(e) == e.op = "move" /\ e.tile = KEY /\ e.accepted

DoorMove(e) == e.op = "move" /\ e.tile = DOOR /\ e.accepted

TrapMove(e) == e.op = "move" /\ e.tile = TRAP /\ e.accepted

GoalMove(e) == e.op = "move" /\ e.tile = GOAL /\ e.accepted

\* the counters of C8: a key adds one key and 10 coins, a door takes one
\* key and adds 50 to the score
KeyDoorCounters ==
  /\ KeyMove(lastEvent') =>
       /\ gameState'.keysCollected = gameState.keysCollected + 1
       /\ gameState'.coins = gameState.coins + 10
       /\ gameState'.score = gameState.score
  /\ DoorMove(lastEvent') =>
       /\ gameState.keysCollected >= 1
       /\ gameState'.keysCollected = gameState.keysCollected - 1
       /\ gameState'.score = gameState.score + 50
       /\ gameState'.coins = gameState.coins

\* C8 as stated: an accepted move onto a Key or onto a Door sets that tile
\* to Empty and changes the counters, on every such move.
C8_Original ==
  [][/\ KeyDoorCounters
     /\ (KeyMove(lastEvent') \/ DoorMove(lastEvent'))
          => Tile(gameState'.currentMap, lastEvent'.at) = EMPTY]_vars

\* C8 amended: the counters change as stated on every accepted move onto a
\* Key or a Door; the tile is Empty after the move unless the move starts a
\* Board Transform, and then the grid is the rotated one with its keys and
\* goal placed anew.
C8_KeyAndDoor ==
  [][/\ KeyDoorCounters
     /\ ((KeyMove(lastEvent') \/ DoorMove(lastEvent')) /\ ~lastEvent'.rotated)
          => /\ Tile(gameState'.currentMap, lastEvent'.at) = EMPTY
             /\ gameState'.playerPos = lastEvent'.at]_vars

\* C8 witness: a door was opened with a key collected before.
C8_Witness ==
  /\ DoorMove(lastEvent)
  /\ gameState.coins >= 10
  /\ gameState.score >= 50
  /\ gameState.keysCollected = 0

\* the counters of C9
TrapCounters ==
  TrapMove(lastEvent') =>
    /\ gameState'.retries = gameState.retries + 1
    /\ gameState'.score = (IF gameState.score - 25 > 0 THEN gameState.score - 25 ELSE 0)

\* C9 as stated: after an accepted move onto a Trap the player is at (1,1),
\* retries is one more and score is max(0, score - 25), in any difficulty
\* setting and at any move count.
C9_Original ==
  [][/\ TrapCounters
     /\ TrapMove(lastEvent') => gameState'.playerPos = Pos(1, 1)]_vars

\* C9 amended: retries and score change as stated on every accepted move
\* onto a Trap; the player is at (1,1) after the move unless the move starts
\* a Board Transform, and then the player is at (N-2, 1), where the rotation
\* takes (1,1).
C9_Trap ==
  [][/\ TrapCounters
     /\ TrapMove(lastEvent') =>
          gameState'.playerPos = (IF lastEvent'.rotated THEN Pos(GridN - 2, 1) ELSE Pos(1, 1))]_vars

\* C9 witness: a trap was stepped on by the move that started a Board
\* Transform, with a score that 25 would take below 0.
C9_Witness ==
  /\ TrapMove(lastEvent)
  /\ lastEvent.rotated
  /\ gameState.score = 0
  /\ gameState.retries = 1
  /\ gameState.playerPos = Pos(GridN - 2, 1)

\* the reward of C10 for a level, a move count that includes the last move,
\* the time taken and the retries
Reward(lvl, moveCount, elapsedMs, retryCount) ==
  (IF 120000 - elapsedMs > 0 THEN (120000 - elapsedMs) \div 1000 ELSE 0)
  + (IF moveCount < 100 THEN (100 - moveCount) * 5 ELSE 0)
  + lvl * 100
  + (IF retryCount = 0 THEN lvl * 50 ELSE 0)

\* C10: an accepted move onto the Goal sets gameStatus to Completed, adds the
\* reward to score, level*50 and the perfect bonus to xp and level*20 to
\* coins; level 3, 40 moves, 50000 ms and no retry add 820 to score.
C10_GoalReward ==
  [][/\ GoalMove(lastEvent') =>
          /\ gameState'.gameStatus = "completed"
          /\ gameState'.moves = gameState.moves + 1
          /\ gameState'.score = gameState.score
               + Reward(gameState.level, gameState'.moves,
                        levelMetrics'.timeToComplete, gameState.retries)
          /\ gameState'.xp = gameState.xp + gameState.level * 50
               + (IF gameState.retries = 0 THEN gameState.level * 50 ELSE 0)
          /\ gameState'.coins = gameState.coins + gameState.level * 20
     /\ GoalScore([level |-> 3], [moves |-> 40, retries |-> 0], 50000) = 820]_vars

\* C10 witness: the Goal was reached after a retry, too late for a time bonus.
C10_Witness ==
  /\ GoalMove(lastEvent)
  /\ gameState.gameStatus = "completed"
  /\ gameState.retries = 1
  /\ levelMetrics # NoMetrics
  /\ levelMetrics.timeToComplete > 120000

(***************************************************************************)
(* C11.  In every state of a started game the collected keys are between   *)
(* 0 and the total of the current level: 0 <= keysCollected <= totalKeys,  *)
(* for every difficulty setting, hard mode with its Board Transform        *)
(* included.                                                               *)
(***************************************************************************)
C11_KeysWithinTotal ==
  mounted =>
    /\ 0 <= gameState.keysCollected
    /\ gameState.keysCollected <= gameState.totalKeys

\* a key collected after a Board Transform has re-placed the keys
C11_Witness ==
  /\ difficultySetting = "hard"
  /\ gameState.moves > RotationPeriod
  /\ KeyMove(lastEvent)

(***************************************************************************)
(* C12.  The score is never negative: whatever the moves (trap hits from   *)
(* any score included), restarts and level changes, score >= 0.            *)
(***************************************************************************)
C12_ScoreNonNegative == gameState.score >= 0

\* a trap hit with less than one penalty of score
C12_Witness ==
  /\ TrapMove(lastEvent)
  /\ ~lastEvent.rotated
  /\ gameState.score = 0
  /\ gameState.retries = 1

(***************************************************************************)
(* C13.  Once the stored profile is loaded, no step lowers level, xp or    *)
(* coins; the level is at least 1 and changes only in nextLevel, by one.   *)
(***************************************************************************)
C13_Progress ==
  [][mounted =>
       /\ gameState.level >= 1
       /\ gameState'.level >= gameState.level
       /\ gameState'.xp >= gameState.xp
       /\ gameState'.coins >= gameState.coins
       /\ gameState'.level # gameState.level =>
            /\ lastEvent'.op = "next"
            /\ gameState'.level = gameState.level + 1]_vars

\* the next level after a completion that paid xp and coins
C13_Witness ==
  /\ lastEvent.op = "next"
  /\ gameState.level = rendered.level
  /\ gameState.level \in {l + 1 : l \in StoredLevels}
  /\ gameState.xp > 0
  /\ gameState.coins > 0

(***************************************************************************)
(* C14.  At the start of every level (after each initializeLevel, from a   *)
(* restart or from the next level) moves, retries and hintsUsed are 0.     *)
(***************************************************************************)
C14_CountersReset ==
  LevelStarted =>
    /\ gameState.moves = 0
    /\ gameState.retries = 0
    /\ gameState.hintsUsed = 0

\* the next level starts with the retries of the level before it
C14_Witness ==
  /\ lastEvent.op = "next"
  /\ gameState.moves = 0
  /\ gameState.retries = 1

(***************************************************************************)
(* C15.  Every level completion (accepted move onto the Goal) hands its    *)
(* RunMetrics over exactly once: the record of that move becomes           *)
(* levelMetrics, its achievement signals are stored once, and              *)
(* completionData is cleared; no other step hands a record over.           *)
(***************************************************************************)
RunMetricsOf(gs, elapsedMs) ==
  [timeToComplete |-> elapsedMs, movesUsed |-> gs.moves, retriesUsed |-> gs.retries,
   hintsUsed |-> gs.hintsUsed, difficultyScore10 |-> gs.level * 5]

Signals(metrics) ==
  (IF metrics.retriesUsed = 0 THEN <<"Perfect Run">> ELSE <<>>)
  \o (IF metrics.timeToComplete < 30000 THEN <<"Speed Runner">> ELSE <<>>)
  \o (IF metrics.movesUsed < 25 THEN <<"Efficient Navigator">> ELSE <<>>)

C15_HandedOverOnce ==
  [][mounted =>
       /\ gameState'.completionData = NoCompletion
       /\ GoalMove(lastEvent') =>
            /\ \E elapsedMs \in ElapsedChoices :
                 levelMetrics' = RunMetricsOf(gameState', elapsedMs)
            /\ showLevelComplete'
            /\ getUserData(store').achievements = getUserData(store).achievements \o Signals(levelMetrics')
       /\ ~GoalMove(lastEvent') =>
            /\ levelMetrics' = levelMetrics
            /\ getUserData(store').achievements = getUserData(store).achievements]_vars

\* the second completion of a run
C15_Witness ==
  /\ GoalMove(lastEvent)
  /\ gameState.level \in {l + 1 : l \in StoredLevels}
  /\ levelMetrics = RunMetricsOf(gameState, 50000)
  /\ Len(getUserData(store).achievements) >= 2

(***************************************************************************)
(* C16.  In hard mode an accepted move triggers Board Transform exactly    *)
(* when the move counter after the increment is positive and divisible by  *)
(* 20; a rejected move never triggers it and changes nothing; in easy and  *)
(* medium mode no move rotates the grid.                                   *)
(***************************************************************************)
WallCells(grid) == {c \in Cells(Size(grid)) : Tile(grid, c) = WALL}

RotatedCells(cells, N) == {rotatePos(c, N) : c \in cells}

C16_TransformTrigger ==
  [][IsMoveRequest(lastEvent') =>
       /\ lastEvent'.rotated <=>
            /\ difficultySetting = "hard"
            /\ lastEvent'.accepted
            /\ gameState'.moves > 0
            /\ gameState'.moves % 20 = 0
       /\ ~lastEvent'.accepted => gameState' = gameState
       /\ lastEvent'.accepted =>
            WallCells(gameState'.currentMap)
              = IF lastEvent'.rotated
                THEN RotatedCells(WallCells(gameState.currentMap), GridN)
                ELSE WallCells(gameState.currentMap)]_vars

\* the twentieth move of a hard level, onto an empty cell of a grid that
\* the rotation changes
C16_Witness ==
  /\ difficultySetting = "hard"
  /\ lastEvent.op = "move"
  /\ lastEvent.rotated
  /\ lastEvent.tile = EMPTY
  /\ gameState.moves = 20
  /\ WallCells(gameState.currentMap) # RotatedCells(WallCells(gameState.currentMap), GridN)

(***************************************************************************)
(* C17.  The rotation of Board Transform is a bijection of order 4: for    *)
(* every N x N grid, four applications of rotateMatrix give the grid back, *)
(* and for every position four applications of rotatePos give the position *)
(* back; rotatePos maps the cells one-to-one onto the cells.               *)
(***************************************************************************)
rotateMatrix4(matrix) == rotateMatrix(rotateMatrix(rotateMatrix(rotateMatrix(matrix))))

rotatePos2(pos, N) == rotatePos(rotatePos(pos, N), N)

rotatePos4(pos, N) == rotatePos2(rotatePos2(pos, N), N)

C17_RotationOrderFour ==
  Generated =>
    LET grid == gameState.currentMap
        N == Size(grid)
    IN /\ DOMAIN rotateMatrix(grid) = DOMAIN grid
       /\ \A y \in DOMAIN grid : DOMAIN rotateMatrix(grid)[y] = DOMAIN grid[y]
       /\ rotateMatrix4(grid) = grid
       /\ \A c \in Cells(N) : rotatePos(c, N) \in Cells(N) /\ rotatePos4(c, N) = c
       /\ \A c, d \in Cells(N) : rotatePos(c, N) = rotatePos(d, N) => c = d
       /\ \E c \in Cells(N) : rotatePos2(c, N) # c

\* a generated grid that one and two rotations change
C17_Witness ==
  /\ Generated
  /\ rotateMatrix(gameState.currentMap) # gameState.currentMap
  /\ rotateMatrix(rotateMatrix(gameState.currentMap)) # gameState.currentMap
  /\ rotateMatrix4(gameState.currentMap) = gameState.currentMap

(***************************************************************************)
(* C18.  Board Transform rotates grid and player by the same function:     *)
(* the tile at (x,y) is at (N-1-y, x) after the rotation step and the      *)
(* player position is mapped likewise, so that right after the rotation    *)
(* step the tile under the player is the one the player stood on, and      *)
(* every Wall, Door and Trap has its kind at its rotated cell.             *)
(***************************************************************************)
\* the cell the player stands on after the tile effect of a move
StoodOn(e) == IF e.tile = TRAP THEN Pos(1, 1) ELSE e.at

\* the grid after the tile effect of a move, before the rotation step
GridAfterEffect(grid, e) ==
  IF e.tile \in {KEY, DOOR} THEN SetTile(grid, e.at.x, e.at.y, EMPTY) ELSE grid

C18_RotationConsistent ==
  [][lastEvent'.rotated =>
       LET N == Size(gameState.currentMap)
           before == GridAfterEffect(gameState.currentMap, lastEvent')
           turned == rotateMatrix(before)
           stood == StoodOn(lastEvent')
       IN /\ \A c \in Cells(N) :
               /\ rotatePos(c, N) = Pos(N - 1 - c.y, c.x)
               /\ Tile(turned, Pos(N - 1 - c.y, c.x)) = Tile(before, c)
          /\ gameState'.playerPos = rotatePos(stood, N)
          /\ Tile(turned, gameState'.playerPos) = Tile(before, stood)
          /\ \A c \in Cells(N) :
               /\ Tile(before, c) = WALL <=>
                    Tile(gameState'.currentMap, rotatePos(c, N)) = WALL
               /\ Tile(before, c) \in {DOOR, TRAP} =>
                    Tile(gameState'.currentMap, rotatePos(c, N)) \in {Tile(before, c), GOAL}]_vars

\* a Board Transform that carries the player and a Trap to their rotated cells
C18_Witness ==
  /\ lastEvent.rotated
  /\ lastEvent.tile = EMPTY
  /\ gameState.playerPos = rotatePos(lastEvent.at, GridN)
  /\ gameState.playerPos # lastEvent.at
  /\ CountTiles(gameState.currentMap, TRAP) > 0

(***************************************************************************)
(* C19.  After every Board Transform the grid holds exactly totalKeys Key  *)
(* tiles (or as many as there were Empty cells, if fewer), whatever the    *)
(* keys on the board or collected before, all on cells that were Empty     *)
(* once the old Keys and the old Goal were removed, and one Goal, on an    *)
(* Empty cell or, if no cell is Empty, on a non-Wall cell.                 *)
(***************************************************************************)
CellsOf(grid, kind) == {c \in Cells(Size(grid)) : Tile(grid, c) = kind}

\* the rotated grid of a move with the old Keys and the old Goal removed
ClearedGrid(grid, e) ==
  LET turned == rotateMatrix(GridAfterEffect(grid, e))
      N == Size(grid)
  IN [py \in 0..(N - 1) |-> [px \in 0..(N - 1) |->
        IF turned[py][px] \in {KEY, GOAL} THEN EMPTY ELSE turned[py][px]]]

C19_KeysAndGoalPlaced ==
  [][lastEvent'.rotated =>
       LET cleared == ClearedGrid(gameState.currentMap, lastEvent')
           free == CellsOf(cleared, EMPTY)
           keys == CellsOf(gameState'.currentMap, KEY)
           goals == CellsOf(gameState'.currentMap, GOAL)
       IN /\ Cardinality(keys) = Min(gameState'.totalKeys, Cardinality(free))
          /\ keys \subseteq free
          /\ Cardinality(goals) = 1
          /\ IF Cardinality(free) > gameState'.totalKeys
             THEN goals \subseteq free
             ELSE goals \cap CellsOf(cleared, WALL) = {}]_vars

\* a Board Transform after a key was collected: the full number of keys is
\* on the board again, none where the old one lay
C19_Witness ==
  /\ lastEvent.rotated
  /\ gameState.keysCollected >= 1
  /\ gameState.totalKeys >= 1
  /\ CountTiles(gameState.currentMap, KEY) = gameState.totalKeys
  /\ CountTiles(gameState.currentMap, GOAL) = 1

(***************************************************************************)
(* C20.  Every trap-relocation tick conserves the number of Trap tiles:    *)
(* whatever the grid, the player position and the outcome of the random    *)
(* cell choices, there are as many Traps after the tick as before it.      *)
(***************************************************************************)
C20_TrapsConserved ==
  [][lastEvent'.op = "tick" =>
       CountTiles(gameState'.currentMap, TRAP)
         = CountTiles(gameState.currentMap, TRAP)]_vars

\* a tick that has moved a Trap to another cell
C20_Witness ==
  /\ lastEvent.op = "tick"
  /\ CountTiles(gameState.currentMap, TRAP) = 1
  /\ Tile(gameState.currentMap, Pos(1, 1)) = TRAP

(***************************************************************************)
(* C21.  A trap-relocation tick only moves traps: every Trap after it lies *)
(* on a cell that is Empty once the old Traps are removed and is not the   *)
(* player's cell; every Wall, Key, Door and Goal tile, the player          *)
(* position, all counters and gameStatus are as before.                    *)
(***************************************************************************)
Fixed == {WALL, KEY, DOOR, GOAL}

IsTick(e) == e.op = "tick"

C21_TickMovesTrapsOnly ==
  [][IsTick(lastEvent') =>
       /\ \A c \in Cells(Size(gameState.currentMap)) :
            /\ Tile(gameState'.currentMap, c) = TRAP =>
                 /\ Tile(gameState.currentMap, c) \in {EMPTY, TRAP}
                 /\ c # gameState.playerPos
            /\ Tile(gameState.currentMap, c) \in Fixed =>
                 Tile(gameState'.currentMap, c) = Tile(gameState.currentMap, c)
            /\ Tile(gameState'.currentMap, c) \in Fixed =>
                 Tile(gameState.currentMap, c) = Tile(gameState'.currentMap, c)
       /\ [gameState' EXCEPT !.currentMap = gameState.currentMap] = gameState
       /\ UNCHANGED <<levelMetrics, showLevelComplete, store, rendered>>]_vars

\* a tick during a level under way that has put a Trap on a cell next to the player
C21_Witness ==
  /\ IsTick(lastEvent)
  /\ gameState.moves >= 1
  /\ gameState.playerPos # Pos(1, 1)
  /\ \E d \in Directions :
       Tile(gameState.currentMap,
            Pos(gameState.playerPos.x + d.x, gameState.playerPos.y + d.y)) = TRAP

(***************************************************************************)
(* C22.  Traps are relocated only while gameStatus is Playing and the      *)
(* difficulty setting is not easy: no tick happens in easy mode or after   *)
(* the level is completed, until a new level is initialised; while a       *)
(* medium or hard level is being played the ticks keep coming.             *)
(***************************************************************************)
TicksDue == gameState.gameStatus = "playing" /\ difficultySetting # "easy"

C22_TicksWhilePlaying ==
  /\ [][IsTick(lastEvent') => TicksDue /\ TicksDue']_vars
  /\ [](mounted /\ ~dirty => (trapTimer <=> TicksDue))
  /\ [](mounted /\ TicksDue => <>(IsTick(lastEvent) \/ ~TicksDue))

\* a tick of the level that follows a completed one
C22_Witness ==
  /\ IsTick(lastEvent)
  /\ inits = 1
  /\ levelMetrics # NoMetrics
  /\ ~showLevelComplete
  /\ difficultySetting = "medium"

(***************************************************************************)
(* C23.  When the Goal can be reached from the player's cell through       *)
(* cells that are Empty, Key, Goal or, with a key in hand, Door (Wall and  *)
(* Trap block), the hint is one cell: 4-adjacent to the player, itself     *)
(* such a cell, and the first step of a shortest such path.  With the Goal *)
(* next to the player the hint is the Goal cell.                           *)
(***************************************************************************)
\* the cells a hint path may use, as the claim lists them
PathCells(grid, keys) ==
  {c \in Cells(Size(grid)) :
     Tile(grid, c) \in {EMPTY, KEY, GOAL} \/ (Tile(grid, c) = DOOR /\ keys > 0)}

\* the cells at most n steps from the cells of near, through the cells of open
RECURSIVE Within(_, _, _)
Within(near, open, n) ==
  IF n = 0 THEN near
  ELSE Within(near \cup {c \in open : \E b \in near : Adjacent(b, c)}, open, n - 1)

\* the steps of a shortest path from cell a to cell g, or -1 when there is none
Distance(a, g, open) ==
  LET far == Cardinality(open)
      ns == {n \in 0..far : g \in Within({a}, open, n)}
  IN IF ns = {} THEN 0 - 1 ELSE CHOOSE n \in ns : \A m \in ns : n <= m

IsHint(e) == e.op = "hint"

HintedFrom(grid, player, keys, shown) ==
  \A g \in CellsOf(grid, GOAL) :
    LET open == PathCells(grid, keys)
        steps == Distance(player, g, open)
    IN (player # g /\ steps >= 1) =>
         /\ shown.kind = "hint"
         /\ shown.reachableTiles = {}
         /\ \E h \in open :
              /\ shown.hintTile = {h}
              /\ Adjacent(player, h)
              /\ Distance(h, g, open) = steps - 1
         /\ Adjacent(player, g) => shown.hintTile = {g}

C23_HintFirstStep ==
  /\ mounted =>
       HintedFrom(gameState.currentMap, gameState.playerPos, gameState.keysCollected,
                  useHintResult(gameState.currentMap, gameState.playerPos,
                                gameState.keysCollected))
  /\ IsHint(lastEvent) /\ hintTile # {} =>
       \E h \in hintTile : hintTile = {h} /\ Adjacent(lastEvent.at, h)

\* a hint that leads through an opened door or round a Trap: the Goal is
\* more than one step away
C23_Witness ==
  /\ IsHint(lastEvent)
  /\ gameState.playerPos = lastEvent.at
  /\ \E h \in hintTile : Tile(gameState.currentMap, h) # GOAL
  /\ CountTiles(gameState.currentMap, TRAP) >= 1

(***************************************************************************)
(* C24.  When there is no hint path to the Goal, the hint gives a          *)
(* non-empty set of adjacent cells if the player has any legal move (a     *)
(* move that movePlayer would accept), and signals that no move is         *)
(* available only if there is no legal move.                               *)
(***************************************************************************)
\* the adjacent cells that a move of the player would be accepted onto
LegalMoves(gs) ==
  IF gs.gameStatus # "playing" THEN {}
  ELSE {n \in Cells(Size(gs.currentMap)) :
          /\ Adjacent(gs.playerPos, n)
          /\ Tile(gs.currentMap, n) # WALL
          /\ ~(Tile(gs.currentMap, n) = DOOR /\ gs.keysCollected = 0)}

HintShown(gs) == useHintResult(gs.currentMap, gs.playerPos, gs.keysCollected)

C24_FallbackMoves ==
  mounted /\ HintShown(gameState).kind \in {"noPath", "stuck"} =>
    /\ LegalMoves(gameState) # {} =>
         /\ HintShown(gameState).kind = "noPath"
         /\ HintShown(gameState).reachableTiles # {}
         /\ \A n \in HintShown(gameState).reachableTiles : Adjacent(gameState.playerPos, n)
    /\ HintShown(gameState).kind = "stuck" => LegalMoves(gameState) = {}

\* a hint that shows nothing while the player can step onto a Trap
C24_Witness ==
  /\ IsHint(lastEvent)
  /\ highlights = <<{}, {}>>
  /\ gameState.gameStatus = "playing"
  /\ gameState.playerPos = lastEvent.at
  /\ \E n \in LegalMoves(gameState) : Tile(gameState.currentMap, n) = TRAP

(***************************************************************************)
(* C25.  Every hint adds exactly 1 to hintsUsed, whatever it shows (a      *)
(* path, the fallback, no moves, no goal), and changes nothing else of the *)
(* game state: grid, player position, keysCollected, moves, score and      *)
(* gameStatus are as before.                                               *)
(***************************************************************************)
C25_HintCountsOnly ==
  [][IsHint(lastEvent') =>
       /\ gameState'.hintsUsed = gameState.hintsUsed + 1
       /\ [gameState' EXCEPT !.hintsUsed = gameState.hintsUsed] = gameState
       /\ UNCHANGED <<levelMetrics, showLevelComplete, store, trapTimer>>]_vars

\* a hint without a path to the Goal: the fallback cells are shown
C25_Witness ==
  /\ IsHint(lastEvent)
  /\ gameState.hintsUsed = 1
  /\ gameState.playerPos = lastEvent.at
  /\ reachableTiles # {}
  /\ hintTile = {}

(***************************************************************************)
(* C26.  Regenerating a level (restart or next level) clears a hint        *)
(* highlight that is still shown: right after initializeLevel no hint cell *)
(* and no reachable-set highlight computed on the grid before is           *)
(* displayed.                                                              *)
(***************************************************************************)
C26_HighlightCleared ==
  lastEvent.op \in {"restart", "next", "keyR"} => hintTile = {} /\ reachableTiles = {}

\* the next level is shown with the reachable-set highlight of a hint asked
\* on the completed level
C26_Witness ==
  /\ lastEvent.op = "next"
  /\ gameState.moves = 0
  /\ reachableTiles # {}

(***************************************************************************)
(* C27.  For every level >= 1 and every record of previous metrics (or     *)
(* none) the difficulty is min(level*0.3, 4), plus 0.3 (time < 30000 ms),  *)
(* plus 0.2 (moves < 25), minus 0.4 (retries > 2), minus 0.3 (hints > 1),  *)
(* then clamped, so that it lies in [0.5, 4]; keyCount =                   *)
(* max(1, floor(difficulty/2)) is 1 or 2 and doorCount is 0 or 1.          *)
(* Difficulties are in tenths.                                             *)
(***************************************************************************)
Adjusted10(metrics, lvl) ==
  (IF lvl * 3 < 40 THEN lvl * 3 ELSE 40)
  + (IF metrics # NoMetrics /\ metrics.timeToComplete < 30000 THEN 3 ELSE 0)
  + (IF metrics # NoMetrics /\ metrics.movesUsed < 25 THEN 2 ELSE 0)
  - (IF metrics # NoMetrics /\ metrics.retriesUsed > 2 THEN 4 ELSE 0)
  - (IF metrics # NoMetrics /\ metrics.hintsUsed > 1 THEN 3 ELSE 0)

C27_DifficultyRange ==
  LET lvl == rendered.level
      metrics == rendered.levelMetrics
      d == Difficulty10(metrics, lvl)
      a == Adjusted10(metrics, lvl)
  IN /\ lvl >= 1
     /\ d = (IF a < 5 THEN 5 ELSE IF a > 40 THEN 40 ELSE a)
     /\ 5 <= d /\ d <= 40
     /\ KeyCount(d) = (IF d \div 20 >= 1 THEN d \div 20 ELSE 1)
     /\ KeyCount(d) \in {1, 2}
     /\ DoorCount(d) = KeyCount(d) - 1
     /\ DoorCount(d) \in {0, 1}
     /\ Generated => gameState.totalKeys = KeyCount(d)

\* a level generated at the top of the range after a quick, short level
C27_Witness ==
  /\ Generated
  /\ rendered.levelMetrics # NoMetrics
  /\ rendered.levelMetrics.timeToComplete < 30000
  /\ Adjusted10(rendered.levelMetrics, rendered.level) > 40
  /\ gameState.totalKeys = 2

(***************************************************************************)
(* C28.  doorCount <= keyCount in every generation, and the Door tiles     *)
(* placed are never more than doorCount.                                   *)
(***************************************************************************)
RenderedDifficulty10 == Difficulty10(rendered.levelMetrics, rendered.level)

C28_DoorsWithinKeys ==
  /\ DoorCount(RenderedDifficulty10) <= KeyCount(RenderedDifficulty10)
  /\ Generated =>
       /\ CountTiles(gameState.currentMap, DOOR) <= DoorCount(RenderedDifficulty10)
       /\ CountTiles(gameState.currentMap, DOOR) <= gameState.totalKeys

\* a generated level with its one Door placed
C28_Witness ==
  /\ Generated
  /\ DoorCount(RenderedDifficulty10) = 1
  /\ CountTiles(gameState.currentMap, DOOR) = 1

(***************************************************************************)
(* C29.  Level generation always ends and returns a grid, for every        *)
(* difficulty setting, level and sequence of random choices: the wall loop *)
(* makes at most 50 attempts, the key and door loops at most 30 each, each *)
(* trap at most 20, and a loop that reaches its cap leaves a grid with     *)
(* fewer decorations; the generator does not fail.                         *)
(***************************************************************************)
TileKinds == {EMPTY, WALL, KEY, DOOR, GOAL, TRAP}

IsGrid(grid, N) ==
  /\ DOMAIN grid = 0..(N - 1)
  /\ \A y \in 0..(N - 1) :
       DOMAIN grid[y] = 0..(N - 1) /\ \A x \in 0..(N - 1) : grid[y][x] \in TileKinds

InnerWalls(grid) == Cardinality(WallCells(grid) \ Ring(Size(grid)))

C29_GenerationReturns ==
  ~Generated =>
    LET d == RenderedDifficulty10
        outs == GeneratedLevels(rendered)
    IN /\ WallAttempts = 50 /\ KeyAttempts = 30 /\ DoorAttempts = 30 /\ TrapAttempts = 20
       /\ outs # {}
       /\ \A o \in outs :
            /\ IsGrid(o.map, BaseSize(difficultySetting))
            /\ o.totalKeys = KeyCount(d)
            /\ InnerWalls(o.map) <= WallCount(difficultySetting, d)
            /\ CountTiles(o.map, KEY) <= KeyCount(d)
            /\ CountTiles(o.map, DOOR) <= DoorCount(d)
            /\ CountTiles(o.map, TRAP) <= TrapCount(difficultySetting, d)
       /\ \E o \in outs : CountTiles(o.map, KEY) < KeyCount(d)
       /\ \E o \in outs : InnerWalls(o.map) < WallCount(difficultySetting, d)

\* a generated grid with fewer keys than keyCount: the key loop reached its cap
C29_Witness ==
  /\ Generated
  /\ IsGrid(gameState.currentMap, GridN)
  /\ CountTiles(gameState.currentMap, KEY) < gameState.totalKeys
  /\ CountTiles(gameState.currentMap, GOAL) = 1

(***************************************************************************)
(* C30.  In every generated grid no cell of the main path (row 1 from      *)
(* x = 1 to x = N-2, then column N-2 from y = 1 to y = N-2) is a Wall or a *)
(* Trap, and the start cell (1,1) is Empty.                                *)
(***************************************************************************)
MainPathCells(N) ==
  {Pos(x, 1) : x \in 1..(N - 2)} \cup {Pos(N - 2, y) : y \in 1..(N - 2)}

C30_MainPathClear ==
  Generated =>
    /\ \A c \in MainPathCells(Size(gameState.currentMap)) :
         Tile(gameState.currentMap, c) \notin {WALL, TRAP}
    /\ Tile(gameState.currentMap, Pos(1, 1)) = EMPTY

\* a generated grid with a Wall on the start cell, the other cells of the
\* main path free of Walls and Traps
C30_Witness ==
  /\ Generated
  /\ Tile(gameState.currentMap, Pos(1, 1)) = WALL
  /\ \A c \in MainPathCells(GridN) \ {Pos(1, 1)} :
       Tile(gameState.currentMap, c) \notin {WALL, TRAP}

(***************************************************************************)
(* C31  saveUserData(partial) merges shallowly: after the call every        *)
(* top-level field named in partial has the new value and every other      *)
(* field keeps the value getUserData read before the call.                  *)
(***************************************************************************)
IsSave(e) == e.op = "saveUserData"

\* what a reader of the store finds
Profile(data) == getUserData(data)

ShallowMerged(before, after, partial) ==
  /\ \A k \in DOMAIN partial : Profile(after)[k] = partial[k]
  /\ \A k \in DOMAIN Profile(before) \ DOMAIN partial :
       Profile(after)[k] = Profile(before)[k]

\* as stated: of every call
C31_Original ==
  [][IsSave(lastEvent') => ShallowMerged(store, store', lastEvent'.partial)]_vars

\* C31 amended: a call whose write localStorage accepts merges shallowly
\* (a field the stored object lacks counts with its default); a call whose
\* write fails leaves the item as it was
C31_ShallowMerge ==
  [][IsSave(lastEvent') =>
       IF lastEvent'.storage = "available"
       THEN ShallowMerged(store, store', lastEvent'.partial)
       ELSE store' = store]_vars

\* a settings save over a stored profile of level 3 that has no settings
C31_Witness ==
  /\ IsSave(lastEvent)
  /\ lastEvent.storage = "available"
  /\ "settings" \in DOMAIN lastEvent.partial
  /\ Profile(store).level = 3
  /\ Profile(store).score = 120
  /\ Profile(store).settings.theme = "dark"

(***************************************************************************)
(* C32  Persistence failures never propagate: getUserData returns the      *)
(* default profile (level 1, score 0, xp 0, coins 0, no achievements) when *)
(* the item is missing, empty or unparsable, or the store cannot be read;  *)
(* saveUserData swallows a failing write, and the state of its caller is   *)
(* untouched.                                                              *)
(***************************************************************************)
IsRead(e) == e.op = "getUserData"

IsDefaultProfile(profile) ==
  /\ profile.level = 1
  /\ profile.score = 0
  /\ profile.xp = 0
  /\ profile.coins = 0
  /\ profile.achievements = <<>>

NothingUsable(data) == data \in {NoData, EmptyText, Unparsable}

C32_FailuresContained ==
  [][/\ IsRead(lastEvent') =>
          /\ ~lastEvent'.result.threw
          /\ NothingUsable(store) \/ lastEvent'.storage = "blocked" =>
               IsDefaultProfile(lastEvent'.result.value)
     /\ IsSave(lastEvent') =>
          /\ ~lastEvent'.result.threw
          /\ lastEvent'.storage # "available" => store' = store
          /\ UNCHANGED <<gameState, levelMetrics, showLevelComplete, rendered>>]_vars

\* a save on an unparsable item while localStorage is full
C32_Witness ==
  /\ IsSave(lastEvent)
  /\ lastEvent.storage = "full"
  /\ "level" \in DOMAIN lastEvent.partial
  /\ store = Unparsable

(***************************************************************************)
(* C33  The grid of the level entered by nextLevel is generated with the   *)
(* difficulty scalar of the new level number, and the first grid after a   *)
(* stored profile is loaded is generated from the stored level number.     *)
(***************************************************************************)
\* the grid and totalKeys of gs are a result of generateAdaptiveLevel for
\* the level number of gs and the metrics lm
GeneratedFor(gs, lm) ==
  \E out \in GenTable[<<difficultySetting, Difficulty10(lm, gs.level)>>] :
     /\ out.map = gs.currentMap
     /\ out.totalKeys = gs.totalKeys

C33_GridOfNewLevel ==
  [][/\ lastEvent'.op = "next" =>
          /\ gameState'.level = gameState.level + 1
          /\ GeneratedFor(gameState', levelMetrics)
     /\ lastEvent'.op = "mount" =>
          /\ gameState'.level = getUserData(store).level
          /\ GeneratedFor(gameState', levelMetrics)]_vars

\* the first grid of a profile stored at level 14 has one key, as a grid
\* of level 1 has, where a grid of level 14 has two
C33_Witness ==
  /\ lastEvent.op = "mount"
  /\ gameState.level = 14
  /\ gameState.totalKeys = 1
  /\ KeyCount(Difficulty10(levelMetrics, gameState.level)) = 2

(***************************************************************************)
(* C34  A hint asked with key H is computed from the grid, the player      *)
(* position and keysCollected of the moment it is asked, as a hint asked   *)
(* with the Hint button is, also after the player has moved since the key  *)
(* handler was registered.                                                 *)
(***************************************************************************)
IsKeyHint(e) == e.op = "keyH"

\* the highlights after a hint computed from the game state gs
ShownFor(gs, tile, tiles) ==
  LET shown == useHintResult(gs.currentMap, gs.playerPos, gs.keysCollected)
  IN <<IF shown.kind = "hint" THEN shown.hintTile ELSE tile,
       IF shown.kind = "noPath" THEN shown.reachableTiles ELSE tiles>>

C34_KeyHintCurrent ==
  [][IsKeyHint(lastEvent') =>
       /\ highlights' = ShownFor(gameState, hintTile, reachableTiles)
       /\ gameState' = useHintUpdate(gameState)]_vars

\* after a move, key H highlights the cell the player stands on
C34_Witness ==
  /\ IsKeyHint(lastEvent)
  /\ gameState.moves > 0
  /\ gameState.gameStatus = "playing"
  /\ gameState.playerPos # Pos(1, 1)
  /\ hintTile = {gameState.playerPos}

(***************************************************************************)
(* C35  In every state of a started level the player's position is inside  *)
(* the grid and the tile under the player is not a Wall, also after a trap *)
(* has sent the player back to (1,1) on a grid that was rotated.           *)
(***************************************************************************)
C35_PlayerOnOpenTile ==
  mounted =>
    /\ InGrid(gameState.currentMap, gameState.playerPos)
    /\ Tile(gameState.currentMap, gameState.playerPos) # WALL

\* a trap sends the player back to (1,1), where a Wall stands
C35_Witness ==
  /\ TrapMove(lastEvent)
  /\ gameState.playerPos = Pos(1, 1)
  /\ Tile(gameState.currentMap, Pos(1, 1)) = WALL

(***************************************************************************)
(* C36  The Board Transform puts no Key and no Goal on the cell the player *)
(* occupies after the rotation, and the player never stands on the Goal    *)
(* while gameStatus is still Playing.                                      *)
(***************************************************************************)
UnderPlayer(gs) == Tile(gs.currentMap, gs.playerPos)

C36_NothingUnderPlayer ==
  [][/\ lastEvent'.op = "move" /\ lastEvent'.rotated =>
          UnderPlayer(gameState') \notin {KEY, GOAL}
     /\ mounted' /\ gameState'.gameStatus = "playing" =>
          UnderPlayer(gameState') # GOAL]_vars

\* after a Board Transform the player stands on the Goal of a level that
\* is not completed
C36_Witness ==
  /\ lastEvent.op = "move"
  /\ lastEvent.rotated
  /\ gameState.gameStatus = "playing"
  /\ UnderPlayer(gameState) = GOAL

(***************************************************************************)
(* C37  On every generated grid the number of Key tiles equals the         *)
(* totalKeys returned with it, and the number of Door tiles is smaller     *)
(* than the number of Key tiles.                                           *)
(***************************************************************************)
C37_KeysAsReturned ==
  Generated =>
    /\ CountTiles(gameState.currentMap, KEY) = gameState.totalKeys
    /\ CountTiles(gameState.currentMap, DOOR) < CountTiles(gameState.currentMap, KEY)

\* a generated grid with one Key and one Door where totalKeys is 2
C37_Witness ==
  /\ Generated
  /\ gameState.totalKeys = 2
  /\ CountTiles(gameState.currentMap, KEY) = 1
  /\ CountTiles(gameState.currentMap, DOOR) = 1

(***************************************************************************)
(* C38  Every restart of the current level counts as a retry: by the Retry *)
(* button, the Replay button or key R, retries grows by 1, so that a       *)
(* restarted level earns no perfect bonus.                                 *)
(***************************************************************************)
IsRestart(e) == e.op \in {"restart", "keyR"}

C38_RestartCounts ==
  [][IsRestart(lastEvent') =>
       /\ gameState'.retries = gameState.retries + 1
       /\ gameState'.moves = 0
       /\ gameState'.level = gameState.level]_vars

\* a level restarted with key R is completed with retries 0 and earns the
\* perfect bonus of level 14 on top of 50 xp a level
C38_Witness ==
  /\ GoalMove(lastEvent)
  /\ inits = 1
  /\ gameState.level = 14
  /\ gameState.retries = 0
  /\ gameState.xp = 14 * 50 + 14 * 50

(***************************************************************************)
(* C39  Mounting the play screen never lowers the stored profile: from the *)
(* mount to the first render with the loaded data the store holds no       *)
(* level, score, xp or coins lower than the one stored before the mount.   *)
(***************************************************************************)
NotLower(before, after) ==
  /\ after.level >= before.level
  /\ after.score >= before.score
  /\ after.xp >= before.xp
  /\ after.coins >= before.coins

C39_MountKeepsProfile ==
  [][lastEvent'.op \in {"mount", "render"} =>
       NotLower(getUserData(store), getUserData(store'))]_vars

\* after the mount effects the store holds level 1 where the loaded
\* profile, still to be rendered, has level 14
C39_Witness ==
  /\ lastEvent.op = "mount"
  /\ dirty
  /\ gameState.level = 14
  /\ getUserData(store).level = 1

====
